---- MODULE Spec2Model ----
(***************************************************************************)
(* Verification model of the embedding & retrieval engine:                 *)
(*   server/app/rag_store.py   NumpyStore  (vector store, atomic save,     *)
(*                             auto-heal on load, cosine search)           *)
(*   server/app/embeddings.py  OpenAIEmbedder, _CacheAdapter, _Limiter     *)
(*   server/app/embed_cache.py EmbedCache, _LRU                            *)
(*                                                                         *)
(* Vectors are integer tuples.  A stored row is unit-normalised by the     *)
(* code (v / ||v||); the model represents the unit vector of direction v   *)
(* by the primitive integer vector of that direction (v divided by the gcd *)
(* of its components), so that two embeddings are stored as the same row   *)
(* exactly when they have the same direction.  Scores are kept exactly as  *)
(* sign and squared cosine (a reduced fraction); float32 rounding is not   *)
(* modelled.                                                               *)
(***************************************************************************)
EXTENDS Integers, Sequences, FiniteSets, TLC

(***************************************************************************)
(* Bounds of the model.                                                    *)
(***************************************************************************)
Dim == 2            \* cfg.dim of the modelled store (EMBED_DIM)
MaxRecs == 3        \* records appended over a whole run of the store

VARIABLES
    vecs,       \* NumpyStore.vecs: rows of the in-memory / memory-mapped array
    meta,       \* NumpyStore.meta: list of metadata dicts
    diskVec,    \* file vectors.npy        [exists, rows]
    diskMeta,   \* file meta.jsonl         [exists, rows]
    tmpVec,     \* file vectors.npy.tmp    [exists, rows]
    tmpMeta,    \* file meta.jsonl.tmp     [exists, rows]
    pc,         \* position of the (single) writer process in its current call
    call,       \* the current / last call: operation, arguments, state before it, result
    nextRec,    \* history: number of records appended so far (names each appended record)
    srch,       \* the last search call: arguments, argsort result, returned hits
    ecfg,       \* the embedder's settings: RPM_LIMIT, TPM_LIMIT, HEADROOM (percent), its
                \* dimension, the dimension of the provider's model, REDUCE_TO_DIM and
                \* whether the reducer can be built
    now,        \* time.monotonic(), in ticks
    lim,        \* _Limiter: _start, _req, _tok, cooldown_until
    cacheRows,  \* EmbedCache: the rows of table embeds (hash is the primary key)
    epc,        \* position of the caller inside OpenAIEmbedder.embed_texts
    ecall,      \* the current / last embed_texts call
    hist,       \* history: embed_texts calls made, window ends marked by request counts
    hyb,        \* the search_hybrid call: HYBRID_ALPHA, arguments, hits of both channels, result
    sem,        \* the semantic_search request: ALLOW_QUERY_FALLBACK, arguments, response
    ld,         \* meta.jsonl as a starting process finds it, line by line, and whether
                \* _load has read it
    lru,        \* _LRU: cap, the OrderedDict _m (oldest first), the calls of the threads;
                \* history: the keys refreshed so far, the last call that ran
    cch,        \* EmbedCache: _MAX_ROWS; history: the vector last put under each
                \* (hash, model), the last get_many call and its result, calls made
    rp,         \* reduction: the matrix cache files, the Reducer of the running process;
                \* history: the first matrix built per (in_dim, out_dim, seed), reduce calls
    ge,         \* get_embedder: ALLOW_REMOTE, OPENAI_API_KEY set or not, the two
                \* singletons, the embedder last returned; history: FakeEmbedder results
    strm,       \* the stream_answer request: arguments, position, the events sent
    chk,        \* iter_chunked_items: arguments, the items left, batch, size, chunks yielded
    rd,         \* a second NumpyStore instance on the same directory (a request of
                \* the server): its position, its rows; history: whether it wrote
    lt          \* the threads calling _Limiter.account on the shared embedder: their
                \* positions and locals; history: the calls completed in the window

storeVars == <<vecs, meta, diskVec, diskMeta, tmpVec, tmpMeta, pc, call, nextRec>>
embedVars == <<ecfg, now, lim, cacheRows, epc, ecall, hist>>
libVars == <<ld, lru, cch, rp, ge, strm, chk, rd, lt>>
\* libVars without the variables of one component
notLoad == <<lru, cch, rp, ge, strm, chk, rd, lt>>
notLru == <<ld, cch, rp, ge, strm, chk, rd, lt>>
notCache == <<ld, rp, ge, strm, chk, rd, lt>>
notReducer == <<ld, lru, cch, ge, strm, chk, rd, lt>>
notGetEmbedder == <<ld, lru, cch, rp, strm, chk, rd, lt>>
notStream == <<ld, lru, cch, rp, ge, chk, rd, lt>>
notChunker == <<ld, lru, cch, rp, ge, strm, rd, lt>>
notReader == <<ld, lru, cch, rp, ge, strm, chk, lt>>
notLimiter == <<ld, lru, cch, rp, ge, strm, chk, rd>>
nonStoreVars == <<srch, ecfg, now, lim, cacheRows, epc, ecall, hist, hyb, sem, libVars>>
vars == <<vecs, meta, diskVec, diskMeta, tmpVec, tmpMeta, pc, call, nextRec, srch,
          ecfg, now, lim, cacheRows, epc, ecall, hist, hyb, sem, libVars>>

(***************************************************************************)
(* Small arithmetic helpers.                                               *)
(***************************************************************************)
Abs(x) == IF x < 0 THEN -x ELSE x
Min(a, b) == IF a <= b THEN a ELSE b

RECURSIVE Gcd(_, _)
Gcd(a, b) == IF b = 0 THEN a ELSE Gcd(b, a % b)

RECURSIVE GcdSeq(_)
GcdSeq(v) == IF v = <<>> THEN 0 ELSE Gcd(Abs(Head(v)), GcdSeq(Tail(v)))

RECURSIVE SumSq(_)
SumSq(v) == IF v = <<>> THEN 0 ELSE Head(v) * Head(v) + SumSq(Tail(v))

RECURSIVE Dot(_, _)
Dot(a, b) == IF a = <<>> \/ b = <<>> THEN 0
             ELSE Head(a) * Head(b) + Dot(Tail(a), Tail(b))

\* The largest sum of squares a float32 holds: np.linalg.norm of a float32
\* vector whose sum of squares is larger is inf.  Vector components are
\* scaled: one of 40 stands for a float32 value such as 1e20.
F32MaxSq == 1000

\* upsert lines 108-112: v / ||v|| when ||v|| > 0, else v unchanged; with
\* ||v|| = inf every component of v / ||v|| is 0.
Normalize(v) ==
    IF SumSq(v) > F32MaxSq THEN [i \in 1..Len(v) |-> 0]
    ELSE IF SumSq(v) > 0 THEN [i \in 1..Len(v) |-> v[i] \div GcdSeq(v)] ELSE v

(***************************************************************************)
(* Inputs of upsert.  An embedding value is described by what the code     *)
(* asks of it: whether it is a list/tuple, the shape np.asarray gives it   *)
(* (len(emb) is shape[1], ndim is Len(shape)), and its flat data.          *)
(***************************************************************************)
GoodVec(x, y) == [i \in 1..Dim |-> IF i = 1 THEN x ELSE IF i = 2 THEN y ELSE 0]
ListEmb(v) == [isList |-> TRUE, shape |-> <<Len(v)>>, data |-> v]
ShortEmb == [isList |-> TRUE, shape |-> <<Dim - 1>>, data |-> [i \in 1..(Dim - 1) |-> 1]]
NestedEmb == [isList |-> TRUE, shape |-> <<Dim, 1>>, data |-> [i \in 1..Dim |-> 1]]
\* ch.get("embedding") of a chunk without one: None, not a list or tuple
NoneEmb == [isList |-> FALSE, shape |-> <<>>, data |-> <<>>]

ChA == [id |-> "a", space |-> "S", type |-> "page", emb |-> ListEmb(GoodVec(2, 0))]
ChB == [id |-> "b", space |-> "T", type |-> "code", emb |-> ListEmb(GoodVec(0, 1))]
ChZ == [id |-> "a", space |-> "T", type |-> "page", emb |-> ListEmb(GoodVec(0, 0))]
ChShort == [id |-> "b", space |-> "S", type |-> "page", emb |-> ShortEmb]
ChNested == [id |-> "a", space |-> "S", type |-> "page", emb |-> NestedEmb]
ChNone == [id |-> "b", space |-> "S", type |-> "page", emb |-> NoneEmb]

\* The batches passed to upsert: valid records alone, duplicate ids, and every kind
\* of bad record before, after and between valid ones.
Batches ==
    { <<ChA>>, <<ChB>>, <<ChZ>>, <<ChA, ChB>>,
      <<ChShort>>, <<ChShort, ChB>>, <<ChNone, ChA>>,
      <<ChNested>>, <<ChA, ChNested>>, <<ChNested, ChB>>,
      <<ChB, ChShort, ChA>> }

\* The id lists passed to delete_by_ids ("zz" is the id of no record).
IdLists == { {}, {"a"}, {"b"}, {"zz"}, {"a", "zz"}, {"a", "b"} }

IdsOfBatch(batch) == { batch[i].id : i \in 1..Len(batch) }

\* A file: whether it exists, its rows, and whether it is the cut-off output
\* of a write that did not finish.
NoFile == [exists |-> FALSE, rows |-> <<>>, partial |-> FALSE]
File(rows) == [exists |-> TRUE, rows |-> rows, partial |-> FALSE]
CutShort == [exists |-> TRUE, rows |-> <<>>, partial |-> TRUE]

NoCall == [op |-> "init", batch |-> <<>>, ids |-> {}, preVecs |-> <<>>, preMeta |-> <<>>,
           preDiskVec |-> NoFile, preDiskMeta |-> NoFile, ret |-> 0, raised |-> FALSE,
           ioError |-> FALSE]

(***************************************************************************)
(* NumpyStore.upsert, lines 97-118: the loop over the chunks.              *)
(* Result: [raised, vecs, meta] for the chunks seen so far.                *)
(***************************************************************************)
\* line 101: the record is skipped
Skipped(emb) == ~emb.isList \/ emb.shape[1] # Dim
\* lines 104-107: the record raises ValueError
Raises(emb) == Len(emb.shape) # 1 \/ emb.shape[1] # Dim

\* line 113: metadata is the chunk without "embedding" and "text"
MetaOf(ch, rec) == [id |-> ch.id, space |-> ch.space, type |-> ch.type, rec |-> rec]
RowOf(ch, rec) == [u |-> Normalize(ch.emb.data), rec |-> rec]

RECURSIVE CollectFrom(_, _, _)
CollectFrom(batch, acc, rec) ==
    IF batch = <<>> THEN acc
    ELSE LET ch == Head(batch) IN
         IF Skipped(ch.emb) THEN CollectFrom(Tail(batch), acc, rec)
         ELSE IF Raises(ch.emb) THEN [acc EXCEPT !.raised = TRUE]
         ELSE CollectFrom(Tail(batch),
                          [acc EXCEPT !.vecs = Append(@, RowOf(ch, rec)),
                                      !.meta = Append(@, MetaOf(ch, rec))],
                          rec + 1)

Collect(batch, rec) == CollectFrom(batch, [raised |-> FALSE, vecs |-> <<>>, meta |-> <<>>], rec)

\* A writer that rebuilds the array from the new rows alone.
VStackNoBase(base, new) == new

\* lines 121-125: np.vstack([base] + new_vecs), base being the rows held so far
VStack(base, new) == base \o new

(***************************************************************************)
(* NumpyStore.delete_by_ids                                                *)
(***************************************************************************)
\* line 168: keep = [i for i, m in enumerate(self.meta) if m.get("id") not in ids]
\* A filter that keeps the listed ids instead of dropping them.
KeepListed(ms, ids) == { i \in 1..Len(ms) : ms[i].id \in ids }

Keep(ms, ids) == { i \in 1..Len(ms) : ms[i].id \notin ids }

RECURSIVE SortedIdx(_)
SortedIdx(S) == IF S = {} THEN <<>>
                ELSE LET m == CHOOSE x \in S : \A y \in S : x <= y
                     IN <<m>> \o SortedIdx(S \ {m})

\* A rebuild that keeps the right number of rows but not the kept ones.
TakeFirst(rows, keep) == SubSeq(rows, 1, Cardinality(keep \cap (1..Len(rows))))

\* lines 171-173: self.vecs[keep, :] and [self.meta[i] for i in keep]
Take(rows, keep) == LET ix == SortedIdx(keep \cap (1..Len(rows)))
                    IN [j \in 1..Len(ix) |-> rows[ix[j]]]

\* A heal that does not truncate.
PrefixAll(rows, n) == rows

\* lines 63 and 65: self.vecs[:n, :] and self.meta[:n]
Prefix(rows, n) == SubSeq(rows, 1, Min(n, Len(rows)))

(***************************************************************************)
(* Embedding client: OpenAIEmbedder.embed_texts with its cache adapter and *)
(* its rate limiter.  Time is counted in ticks.                            *)
(***************************************************************************)
WindowSec == 2       \* EMBED_WINDOW_SEC, in ticks
MaxRetries == 3      \* EMBED_MAX_RETRIES
BackoffMin == 2      \* EMBED_BACKOFF_MIN_MS, in ticks
BackoffMax == 3      \* EMBED_BACKOFF_MAX_MS, in ticks
MaxTime == 2         \* the clock is advanced by the environment up to here
MaxEmbedCalls == 3   \* embed_texts calls in a run

GetManyParams == 1   \* parameters of the bound method EmbedCache.get_many
PutManyParams == 1   \* parameters of the bound method EmbedCache.put_many

Max(a, b) == IF a >= b THEN a ELSE b
Model == "text-embedding-3-small"

Texts == { "ab", "abcde" }
TextLists == { <<>>, <<"ab">>, <<"abcde", "ab">> }
TextLen(t) == IF t = "ab" THEN 2 ELSE 5

\* _hash_text: the sha256 digest, one per text
HashText(t) == <<"sha256", t>>
\* _approx_tokens
ApproxTokens(t) == IF TextLen(t) > 0 THEN (TextLen(t) + 3) \div 4 ELSE 0

RECURSIVE SumTokens(_)
SumTokens(ts) == IF ts = <<>> THEN 0 ELSE ApproxTokens(Head(ts)) + SumTokens(Tail(ts))

\* _l2_normalize: x / s with s = sqrt(sum of squares) or 1.0
L2Normalize(v) ==
    IF SumSq(v) > 0 THEN [i \in 1..Len(v) |-> v[i] \div GcdSeq(v)] ELSE v

\* The provider's embedding of a text, in the dimension d of the provider's
\* model (ecfg.provDim).
ProviderVec(t, d) ==
    [i \in 1..d |-> IF i = 1 THEN (IF t = "ab" THEN 2 ELSE 0)
                    ELSE IF i = 2 THEN (IF t = "ab" THEN 0 ELSE 3)
                    ELSE 1]
ProviderDims == { Dim - 1, Dim, Dim + 1, Dim + 2 }

\* The two dimensions the code names by number, scaled to the model: 1536, the
\* default dimension of the store (Dim), and 3072, the next larger one.
ReducedDim == Dim
FullDim == Dim + 1

\* reduction.py: the projection matrix of the reducer, out_dim rows of in_dim
\* columns.  The seeded Gaussian matrix is stood for by a fixed integer matrix
\* (its common scale 1 / sqrt(rows) does not change a direction).
ReducerEntry(i, j) == ((i * j) % 3) - 1
ReducerRow(i) == [j \in 1..FullDim |-> ReducerEntry(i, j)]

\* Reducer.reduce for the reducer get_reducer() builds: Reducer(3072, REDUCE_TO_DIM)
ReduceRaises(v) == Len(v) # ecfg.reduceTo /\ Len(v) # FullDim
Reduce(v) ==
    IF Len(v) = ecfg.reduceTo THEN v
    ELSE [i \in 1..ecfg.reduceTo |-> Dot(ReducerRow(i), v)]

\* OpenAIEmbedder._enforce_dim for the embedder's target dimension ecfg.dim
EnforceDim(v) ==
    IF Len(v) = ecfg.dim THEN L2Normalize(v)
    ELSE IF Len(v) = FullDim /\ ecfg.dim = ReducedDim
         THEN IF ecfg.reducerOk /\ ~ReduceRaises(v)
              THEN L2Normalize(Reduce(v))
              ELSE L2Normalize(SubSeq(v, 1, ReducedDim))
    ELSE IF Len(v) > ecfg.dim THEN L2Normalize(SubSeq(v, 1, ecfg.dim))
    ELSE L2Normalize(v \o [i \in 1..(ecfg.dim - Len(v)) |-> 0])

\* EmbedCache.get_many on a fresh instance (its LRU is empty): the rows whose
\* hash is asked for, by hash
CacheGetMany(rows, pairs) ==
    LET fetch == { r \in rows : \E p \in pairs : p[1] = r.hash /\ (\E pp \in pairs : pp[2] = r.model) }
    IN [h \in { r.hash : r \in fetch } |-> (CHOOSE r \in fetch : r.hash = h).vec]

\* EmbedCache.put_many: INSERT OR REPLACE by hash
CachePutMany(rows, tuples) ==
    { r \in rows : \A t \in tuples : t.hash # r.hash } \cup tuples

EmptyMap == [h \in {} |-> <<>>]

\* _CacheAdapter.get_many: dispatch on the number of parameters of cache.get_many
AdapterGetMany(rows, pairs) ==
    IF GetManyParams = 2 THEN CacheGetMany(rows, pairs)
    ELSE IF GetManyParams = 4 THEN CacheGetMany(rows, pairs)
    ELSE EmptyMap

\* _CacheAdapter.put_many: dispatch on the number of parameters of cache.put_many
AdapterPutMany(rows, tuples) ==
    IF PutManyParams = 2 THEN CachePutMany(rows, tuples)
    ELSE IF PutManyParams = 5 THEN CachePutMany(rows, tuples)
    ELSE rows

\* _Limiter.__init__: the settings as the limiter keeps them
Window == Max(1, WindowSec)
Rpm == Max(0, ecfg.rpm)
Tpm == Max(0, ecfg.tpm)
Headroom == Max(10, Min(100, ecfg.headPct))

\* _Limiter._maybe_roll at time t
Roll(l, t) ==
    IF t - l.start >= Window
    THEN [start |-> t, req |-> 0, tok |-> 0, cooldown |-> 0]
    ELSE l

\* _Limiter.account at time t
Account(l, t, tokens, requests) ==
    LET r == Roll(l, t)
    IN [r EXCEPT !.tok = @ + Max(0, tokens), !.req = @ + Max(0, requests)]

\* A limiter that watches the token budget only.
NeedSleepTokensOnly(l) == Tpm > 0 /\ l.tok * 100 > Tpm * Headroom

\* _Limiter.maybe_sleep, lines 130-133
NeedSleep(l) ==
    \/ Rpm > 0 /\ l.req * 100 > Rpm * Headroom
    \/ Tpm > 0 /\ l.tok * 100 > Tpm * Headroom

\* ceil(b * h) for a headroom h given in percent
CeilOf(b, pct) == (b * pct + 99) \div 100

\* A retry sleep that is not capped.
BackoffSleepUncapped(backoff) == backoff

\* line 238: sleep_s = min(backoff, BACKOFF_MAX)
BackoffSleep(backoff) == Min(backoff, BackoffMax)

NoEmbedCall ==
    [texts |-> <<>>, cacheOn |-> FALSE, toQuery |-> <<>>, out |-> <<>>, attempt |-> 0,
     backoff |-> 0, calls |-> 0, issuedAt |-> -1, preMarkRaw |-> 0, preMarkEff |-> 0,
     fails |-> 0, waits |-> <<>>, lookup |-> <<>>, sent |-> <<>>, accounts |-> 0,
     slept |-> 0,
     status |-> "none", result |-> <<>>,
     prev |-> [ok |-> FALSE, texts |-> <<>>, cacheOn |-> FALSE, result |-> <<>>]]

DefaultCfg == [rpm |-> 2, tpm |-> 0, headPct |-> 50,
               dim |-> Dim, provDim |-> Dim, reduceTo |-> ReducedDim, reducerOk |-> TRUE]

NoLines == [lines |-> <<>>, read |-> TRUE]

LruThreads == {1, 2}
NoLruCall == [pc |-> "idle", op |-> "none", k |-> "", v |-> <<>>]
NoLru == [cap |-> 0, m |-> <<>>, thr |-> [t \in LruThreads |-> NoLruCall],
          used |-> <<>>, last |-> <<>>]

CacheHashes == {"h1", "h2"}
CacheModels == {"m1", "m2"}
NoCache == [maxRows |-> 0, lastPut |-> [key \in CacheHashes \X CacheModels |-> <<>>],
            got |-> <<>>, ops |-> 0]

\* the elements of a sequence
Range(seq) == { seq[i] : i \in 1..Len(seq) }

\* (in_dim, out_dim, seed) of the reducers built
RpTriples == { <<3, 2, 0>>, <<3, 2, 1>>, <<2, 1, 0>> }
NoNpy == [kind |-> "absent", M |-> <<>>]
NoReducer == [files |-> [t \in RpTriples |-> NoNpy], cur |-> <<>>,
              first |-> [t \in RpTriples |-> <<>>], last |-> <<>>, n |-> 0]

NoGetEmbedder == [allowRemote |-> TRUE, hasKey |-> TRUE, remote |-> <<>>, fake |-> <<>>,
                  ret |-> <<>>, seen |-> [key \in Texts \X {Dim, Dim + 1} |-> <<>>],
                  lastFake |-> <<>>, fakeCalls |-> 0, n |-> 0]

NoStream == [pc |-> "idle", q |-> "", k |-> 0, force |-> TRUE, status |-> "none",
             events |-> <<>>]

NoChunker == [pc |-> "idle", items |-> <<>>, chunkBytes |-> 0, envelope |-> TRUE,
              batch |-> <<>>, size |-> 0, out |-> <<>>]

NoReader == [pc |-> "none", vecs |-> <<>>, meta |-> <<>>, wrote |-> FALSE, n |-> 0]

LimiterThreads == {1, 2}
NoThreads == [thr |-> [t \in LimiterThreads |-> [pc |-> "idle", tokens |-> 0, tmp |-> 0]],
              req |-> 0, tok |-> 0, n |-> 0]

ConcAtRest == rd = NoReader /\ lt = NoThreads

\* The components no call has used yet.
LoadAtRest == ld = NoLines
LruAtRest == lru = NoLru /\ cch = NoCache
OthersAtRest ==
    rp = NoReducer /\ ge = NoGetEmbedder /\ strm = NoStream /\ chk = NoChunker /\ ConcAtRest
LibAtRest == LoadAtRest /\ LruAtRest /\ OthersAtRest

EmbedderWith(cfg) ==
    /\ ecfg = cfg
    /\ now = 0
    /\ lim = [start |-> 0, req |-> 0, tok |-> 0, cooldown |-> 0]
    /\ cacheRows = {}
    /\ epc = "idle"
    /\ ecall = NoEmbedCall
    /\ hist = [calls |-> 0, markRaw |-> 0, markEff |-> 0]

EmbedderAtRest == EmbedderWith(DefaultCfg)

NoSearch == [q |-> <<>>, k |-> 0, spaces |-> {}, types |-> {}, order |-> <<>>,
             hits |-> <<>>, done |-> FALSE]

\* A fused or normalised score, kept exactly as a reduced fraction.
Frac(n, d) == LET g == Gcd(Abs(n), d) IN [num |-> n \div g, den |-> d \div g]
ZeroFrac == Frac(0, 1)

\* HYBRID_ALPHA, in percent
DefaultAlpha == 50

NoHybrid == [pc |-> "idle", alpha |-> DefaultAlpha, q |-> "", k |-> 0, lexHits |-> <<>>,
             vecHits |-> <<>>, byId |-> <<>>, items |-> <<>>, raised |-> FALSE]

NoSemantic == [pc |-> "idle", allow |-> FALSE, q |-> "", k |-> 0, thr |-> <<>>,
               status |-> "none", items |-> <<>>]

(***************************************************************************)
(* Initial state: a store constructed on an empty directory.               *)
(***************************************************************************)
InitStore ==
    /\ vecs = <<>>
    /\ meta = <<>>
    /\ diskVec = NoFile
    /\ diskMeta = NoFile
    /\ tmpVec = NoFile
    /\ tmpMeta = NoFile
    /\ pc = "idle"
    /\ call = NoCall
    /\ nextRec = 0
    /\ srch = NoSearch
    /\ hyb = NoHybrid
    /\ LibAtRest
    /\ sem = NoSemantic
    /\ EmbedderAtRest

StartCall(op, batch, ids) ==
    [op |-> op, batch |-> batch, ids |-> ids, preVecs |-> vecs, preMeta |-> meta,
     preDiskVec |-> diskVec, preDiskMeta |-> diskMeta, ret |-> 0, raised |-> FALSE,
     ioError |-> FALSE]

\* lines 121-125: np.vstack raises ValueError when the rows held are not of
\* the length of the new rows, which is cfg.dim
VStackRaises(base) == base # <<>> /\ Len(base[1].u) # Dim

\* lines 183-187: self.vecs.shape[1]; the empty arrays met here are the
\* (0, cfg.dim) ones the code makes
EffectiveDim(rows) == IF rows # <<>> THEN Len(rows[1].u) ELSE Dim

\* NumpyStore.upsert
Upsert(batch) ==
    /\ pc = "idle"
    /\ LET r == Collect(batch, nextRec + 1) IN
       /\ nextRec + Len(r.meta) <= MaxRecs
       /\ IF r.raised
          THEN /\ call' = [StartCall("upsert", batch, {}) EXCEPT !.raised = TRUE]
               /\ UNCHANGED <<vecs, meta, pc, nextRec>>
          ELSE IF r.vecs = <<>>
          THEN /\ call' = StartCall("upsert", batch, {})
               /\ UNCHANGED <<vecs, meta, pc, nextRec>>
          ELSE IF VStackRaises(vecs)
          THEN /\ call' = [StartCall("upsert", batch, {}) EXCEPT !.raised = TRUE]
               /\ UNCHANGED <<vecs, meta, pc, nextRec>>
          ELSE /\ vecs' = VStack(vecs, r.vecs)
               /\ meta' = meta \o r.meta
               /\ nextRec' = nextRec + Len(r.meta)
               /\ call' = [StartCall("upsert", batch, {}) EXCEPT !.ret = Len(r.meta)]
               /\ pc' = "write_tmp_vec"
    /\ UNCHANGED <<diskVec, diskMeta, tmpVec, tmpMeta>>
    /\ UNCHANGED nonStoreVars

\* NumpyStore.delete_by_ids
DeleteByIds(ids) ==
    /\ pc = "idle"
    /\ IF ids = {}
       THEN /\ call' = StartCall("delete", <<>>, ids)
            /\ UNCHANGED <<vecs, meta, pc>>
       ELSE LET keep == Keep(meta, ids) IN
            /\ IF keep # {}
               THEN /\ vecs' = Take(vecs, keep)
                    /\ meta' = Take(meta, keep)
               ELSE /\ vecs' = <<>>
                    /\ meta' = <<>>
            /\ call' = [StartCall("delete", <<>>, ids) EXCEPT !.ret = Len(meta) - Cardinality(keep)]
            /\ pc' = "write_tmp_vec"
    /\ UNCHANGED <<diskVec, diskMeta, tmpVec, tmpMeta, nextRec>>
    /\ UNCHANGED nonStoreVars

\* lines 41-65: the rows a store constructed on these files holds
Loaded(dv, dm) ==
    LET lv == IF dv.exists THEN dv.rows ELSE <<>>
        lm == IF dm.exists THEN dm.rows ELSE <<>>
        n  == Min(Len(lv), Len(lm))
    IN [vecs |-> Prefix(lv, n), meta |-> Prefix(lm, n)]

\* NumpyStore.__init__ / _load: a (new) process opens the store directory
Load ==
    /\ pc \in {"idle", "crashed"}
    /\ LET lv == IF diskVec.exists THEN diskVec.rows ELSE <<>>
           lm == IF diskMeta.exists THEN diskMeta.rows ELSE <<>>
           nv == Len(lv)
           nm == Len(lm)
           n  == Min(nv, nm)
       IN /\ call' = [StartCall("load", <<>>, {}) EXCEPT !.preVecs = lv, !.preMeta = lm]
          /\ IF nv # nm
             THEN /\ vecs' = IF nv > n THEN Prefix(lv, n) ELSE lv
                  /\ meta' = IF nm > n THEN Prefix(lm, n) ELSE lm
                  /\ pc' = "write_tmp_vec"
             ELSE /\ vecs' = lv
                  /\ meta' = lm
                  /\ pc' = "idle"
    /\ UNCHANGED <<diskVec, diskMeta, tmpVec, tmpMeta, nextRec>>
    /\ UNCHANGED nonStoreVars

(***************************************************************************)
(* NumpyStore._save, one action per file-system step.                      *)
(***************************************************************************)
\* A write that returns with part of the bytes in the file.
WrittenPartly(rows) == CutShort

\* lines 75-79: the with block is left, the temporary file holds every row
Written(rows) == File(rows)

SaveWriteTmpVec ==
    /\ pc = "write_tmp_vec"
    /\ tmpVec' = Written(vecs)
    /\ pc' = "write_tmp_met"
    /\ UNCHANGED <<vecs, meta, diskVec, diskMeta, tmpMeta, call, nextRec>>
    /\ UNCHANGED nonStoreVars

SaveWriteTmpMeta ==
    /\ pc = "write_tmp_met"
    /\ tmpMeta' = Written(meta)
    /\ pc' = "replace_vec"
    /\ UNCHANGED <<vecs, meta, diskVec, diskMeta, tmpVec, call, nextRec>>
    /\ UNCHANGED nonStoreVars

SaveReplaceVec ==
    /\ pc = "replace_vec"
    /\ tmpVec.exists
    /\ diskVec' = tmpVec
    /\ tmpVec' = NoFile
    /\ pc' = "replace_met"
    /\ UNCHANGED <<vecs, meta, diskMeta, tmpMeta, call, nextRec>>
    /\ UNCHANGED nonStoreVars

SaveReplaceMeta ==
    /\ pc = "replace_met"
    /\ tmpMeta.exists
    /\ diskMeta' = tmpMeta
    /\ tmpMeta' = NoFile
    /\ pc' = "reload"
    /\ UNCHANGED <<vecs, meta, diskVec, tmpVec, call, nextRec>>
    /\ UNCHANGED nonStoreVars

SaveReload ==
    /\ pc = "reload"
    /\ vecs' = diskVec.rows
    /\ pc' = "idle"
    /\ UNCHANGED <<meta, diskVec, diskMeta, tmpVec, tmpMeta, call, nextRec>>
    /\ UNCHANGED nonStoreVars

SavePcs == {"write_tmp_vec", "write_tmp_met", "replace_vec", "replace_met", "reload"}

\* The process dies inside a save; its memory is lost, the files stay as they are.
Crash ==
    /\ pc \in SavePcs
    /\ pc' = "crashed"
    /\ vecs' = <<>>
    /\ meta' = <<>>
    /\ call' = [call EXCEPT !.op = "crashed"]
    /\ UNCHANGED <<diskVec, diskMeta, tmpVec, tmpMeta, nextRec>>
    /\ UNCHANGED nonStoreVars

\* The process dies while it writes a temporary file: the file is cut short.
CrashWriting ==
    /\ pc \in {"write_tmp_vec", "write_tmp_met"}
    /\ IF pc = "write_tmp_vec"
       THEN tmpVec' = CutShort /\ UNCHANGED tmpMeta
       ELSE tmpMeta' = CutShort /\ UNCHANGED tmpVec
    /\ pc' = "crashed"
    /\ vecs' = <<>>
    /\ meta' = <<>>
    /\ call' = [call EXCEPT !.op = "crashed"]
    /\ UNCHANGED <<diskVec, diskMeta, nextRec>>
    /\ UNCHANGED nonStoreVars

Next ==
    \/ \E batch \in Batches : Upsert(batch)
    \/ \E ids \in IdLists : DeleteByIds(ids)
    \/ Load
    \/ SaveWriteTmpVec
    \/ SaveWriteTmpMeta
    \/ SaveReplaceVec
    \/ SaveReplaceMeta
    \/ SaveReload
    \/ Crash
    \/ CrashWriting

Init == InitStore

Spec == Init /\ [][Next]_vars

(***************************************************************************)
(* A store constructed on a directory whose files an earlier run wrote     *)
(* with another EMBED_DIM: _load takes the array as np.load gives it.      *)
(***************************************************************************)
OtherDim == Dim + 1

\* row rec of the earlier run: a unit vector of OtherDim components
OldRow(rec) == [u |-> [i \in 1..OtherDim |-> IF i = rec THEN 1 ELSE 0], rec |-> rec]
OldMeta(rec) == [id |-> IF rec = 1 THEN "a" ELSE "b", space |-> "S", type |-> "page", rec |-> rec]

\* the directory is empty, or holds one or two rows of the earlier run
InitDims ==
    /\ \E n \in 0..2 :
          /\ vecs = [i \in 1..n |-> OldRow(i)]
          /\ meta = [i \in 1..n |-> OldMeta(i)]
          /\ diskVec = IF n = 0 THEN NoFile ELSE File(vecs)
          /\ diskMeta = IF n = 0 THEN NoFile ELSE File(meta)
          /\ nextRec = n
    /\ tmpVec = NoFile
    /\ tmpMeta = NoFile
    /\ pc = "idle"
    /\ call = NoCall
    /\ srch = NoSearch
    /\ hyb = NoHybrid
    /\ LibAtRest
    /\ sem = NoSemantic
    /\ EmbedderAtRest

NextDims ==
    \/ \E batch \in Batches : Upsert(batch)
    \/ \E ids \in IdLists : DeleteByIds(ids)
    \/ Load
    \/ SaveWriteTmpVec
    \/ SaveWriteTmpMeta
    \/ SaveReplaceVec
    \/ SaveReplaceMeta
    \/ SaveReload

SpecDims == InitDims /\ [][NextDims]_vars

(***************************************************************************)
(* A second NumpyStore instance on the directory of the ingestion writer:  *)
(* routers/semantic.py constructs NumpyStore(cfg) in every request.  Its   *)
(* _load reads the two files one after the other and, when their lengths   *)
(* differ, heals and runs _save on the same four paths as the writer.      *)
(***************************************************************************)
MaxReaders == 2      \* instances constructed by requests in a run

ReaderBatches == { <<ChA>>, <<ChB>> }
ReaderIdLists == { {"a"}, {"a", "b"} }

ReaderAtRest == rd.pc \in {"none", "done", "raised"}

\* lines 42-45: np.load of vectors.npy, or the empty array
ReaderLoadVec ==
    /\ ReaderAtRest
    /\ rd.n < MaxReaders
    /\ rd' = [rd EXCEPT !.pc = "load_meta", !.n = @ + 1, !.meta = <<>>,
                        !.vecs = IF diskVec.exists THEN diskVec.rows ELSE <<>>]
    /\ UNCHANGED <<diskVec, diskMeta, tmpVec, tmpMeta>>

\* lines 46-65: meta.jsonl is read, the lengths are compared, the longer is cut
ReaderLoadMeta ==
    /\ rd.pc = "load_meta"
    /\ LET lm == IF diskMeta.exists THEN diskMeta.rows ELSE <<>>
           n == Min(Len(rd.vecs), Len(lm))
       IN rd' = [rd EXCEPT !.vecs = Prefix(@, n), !.meta = Prefix(lm, n),
                           !.pc = IF Len(rd.vecs) # Len(lm) THEN "write_tmp_vec" ELSE "done"]
    /\ UNCHANGED <<diskVec, diskMeta, tmpVec, tmpMeta>>

\* lines 75-76
ReaderWriteTmpVec ==
    /\ rd.pc = "write_tmp_vec"
    /\ tmpVec' = Written(rd.vecs)
    /\ rd' = [rd EXCEPT !.pc = "write_tmp_met", !.wrote = TRUE]
    /\ UNCHANGED <<diskVec, diskMeta, tmpMeta>>

\* lines 77-79
ReaderWriteTmpMeta ==
    /\ rd.pc = "write_tmp_met"
    /\ tmpMeta' = Written(rd.meta)
    /\ rd' = [rd EXCEPT !.pc = "replace_vec"]
    /\ UNCHANGED <<diskVec, diskMeta, tmpVec>>

\* line 80: os.replace raises FileNotFoundError when the writer has renamed
\* the temporary file away
ReaderReplaceVec ==
    /\ rd.pc = "replace_vec"
    /\ IF tmpVec.exists
       THEN /\ diskVec' = tmpVec
            /\ tmpVec' = NoFile
            /\ rd' = [rd EXCEPT !.pc = "replace_met"]
       ELSE /\ rd' = [rd EXCEPT !.pc = "raised"]
            /\ UNCHANGED <<diskVec, tmpVec>>
    /\ UNCHANGED <<diskMeta, tmpMeta>>

\* line 81
ReaderReplaceMeta ==
    /\ rd.pc = "replace_met"
    /\ IF tmpMeta.exists
       THEN /\ diskMeta' = tmpMeta
            /\ tmpMeta' = NoFile
            /\ rd' = [rd EXCEPT !.pc = "reload"]
       ELSE /\ rd' = [rd EXCEPT !.pc = "raised"]
            /\ UNCHANGED <<diskMeta, tmpMeta>>
    /\ UNCHANGED <<diskVec, tmpVec>>

\* line 82
ReaderReload ==
    /\ rd.pc = "reload"
    /\ rd' = [rd EXCEPT !.pc = "done", !.vecs = diskVec.rows]
    /\ UNCHANGED <<diskVec, diskMeta, tmpVec, tmpMeta>>

ReaderStep ==
    /\ \/ ReaderLoadVec
       \/ ReaderLoadMeta
       \/ ReaderWriteTmpVec
       \/ ReaderWriteTmpMeta
       \/ ReaderReplaceVec
       \/ ReaderReplaceMeta
       \/ ReaderReload
    /\ UNCHANGED <<vecs, meta, pc, call, nextRec>>
    /\ UNCHANGED <<srch, hyb, sem, embedVars, notReader>>

\* lines 80-81 in the writer: the temporary file is gone, os.replace raises
\* out of _save and out of the upsert or delete_by_ids
WriterReplaceFails ==
    /\ \/ pc = "replace_vec" /\ ~tmpVec.exists
       \/ pc = "replace_met" /\ ~tmpMeta.exists
    /\ pc' = "idle"
    /\ call' = [call EXCEPT !.raised = TRUE, !.ioError = TRUE]
    /\ UNCHANGED <<vecs, meta, diskVec, diskMeta, tmpVec, tmpMeta, nextRec>>
    /\ UNCHANGED nonStoreVars

NextReader ==
    \/ \E batch \in ReaderBatches : Upsert(batch)
    \/ \E ids \in ReaderIdLists : DeleteByIds(ids)
    \/ SaveWriteTmpVec
    \/ SaveWriteTmpMeta
    \/ SaveReplaceVec
    \/ SaveReplaceMeta
    \/ SaveReload
    \/ WriterReplaceFails
    \/ ReaderStep

SpecReader == InitStore /\ [][NextReader]_vars

(***************************************************************************)
(* NumpyStore._load on a metadata file that holds damaged lines.  A line   *)
(* is JSON text of a record, blank, text json.loads rejects, or bytes that *)
(* are not UTF-8.  diskMeta.rows are the records of the well-formed lines. *)
(***************************************************************************)
MaxLines == 3

JsonLine(m) == [kind |-> "json", m |-> <<m>>]
DamagedLine(kind) == [kind |-> kind, m |-> <<>>]

LineValues ==
    { JsonLine(Collect(<<ChA, ChB>>, 1).meta[i]) : i \in 1..2 }
        \cup { DamagedLine(kind) : kind \in {"blank", "badjson", "badutf8"} }

LineFiles == UNION { [1..n -> LineValues] : n \in 0..MaxLines }

\* lines 49-56: blank lines and lines json.loads rejects are passed over
ParseLines(lines) ==
    LET ok == SelectSeq(lines, LAMBDA ln : ln.kind = "json")
    IN [i \in 1..Len(ok) |-> ok[i].m[1]]

\* line 49: the file is decoded as UTF-8 (strict) while it is iterated, outside
\* the try of line 53, which catches json.JSONDecodeError only
LoadRaises(lines) == \E i \in 1..Len(lines) : lines[i].kind = "badutf8"

InitLoad ==
    /\ \E lines \in LineFiles, nv \in 0..2 :
          /\ ld = [lines |-> lines, read |-> FALSE]
          /\ diskVec = File(SubSeq(Collect(<<ChA, ChB>>, 1).vecs, 1, nv))
          /\ diskMeta = File(ParseLines(lines))
    /\ vecs = <<>>
    /\ meta = <<>>
    /\ tmpVec = NoFile
    /\ tmpMeta = NoFile
    /\ pc = "idle"
    /\ call = NoCall
    /\ nextRec = 2
    /\ srch = NoSearch
    /\ hyb = NoHybrid
    /\ sem = NoSemantic
    /\ LruAtRest
    /\ OthersAtRest
    /\ EmbedderAtRest

\* NumpyStore.__init__ / _load of the file as found
LoadLines ==
    /\ pc = "idle"
    /\ ~ld.read
    /\ ld' = [ld EXCEPT !.read = TRUE]
    /\ IF LoadRaises(ld.lines)
       THEN /\ call' = [StartCall("load", <<>>, {}) EXCEPT !.raised = TRUE]
            /\ vecs' = <<>>
            /\ meta' = <<>>
            /\ pc' = "crashed"
       ELSE LET lv == diskVec.rows
                lm == ParseLines(ld.lines)
                nv == Len(lv)
                nm == Len(lm)
                n  == Min(nv, nm)
            IN /\ call' = [StartCall("load", <<>>, {}) EXCEPT !.preVecs = lv, !.preMeta = lm]
               /\ IF nv # nm
                  THEN /\ vecs' = IF nv > n THEN Prefix(lv, n) ELSE lv
                       /\ meta' = IF nm > n THEN Prefix(lm, n) ELSE lm
                       /\ pc' = "write_tmp_vec"
                  ELSE /\ vecs' = lv
                       /\ meta' = lm
                       /\ pc' = "idle"
    /\ UNCHANGED <<diskVec, diskMeta, tmpVec, tmpMeta, nextRec>>
    /\ UNCHANGED <<srch, hyb, sem, notLoad>>
    /\ UNCHANGED embedVars

NextLoad ==
    \/ LoadLines
    \/ SaveWriteTmpVec
    \/ SaveWriteTmpMeta
    \/ SaveReplaceVec
    \/ SaveReplaceMeta
    \/ SaveReload

SpecLoad == InitLoad /\ [][NextLoad]_vars

(***************************************************************************)
(* embed_cache._LRU used by several threads.  get and put hold self._lock  *)
(* for their whole body, so a body is one step; the test of cap comes      *)
(* before the lock.  A thread that has called waits for the lock.          *)
(***************************************************************************)
MaxLruOps == 4

LruKeys == {"k1", "k2", "k3"}
LruVals == { <<1>>, <<2>> }
LruCaps == {-1, 0, 1, 2}

\* line 24
LruCap(cap) == IF cap < 0 THEN 0 ELSE cap

LruIndex(m, k) ==
    IF \E i \in 1..Len(m) : m[i].k = k THEN CHOOSE i \in 1..Len(m) : m[i].k = k ELSE 0

\* OrderedDict.move_to_end(k), then _m[k] = v
MoveToEnd(m, i, v) ==
    Append([j \in 1..(Len(m) - 1) |-> IF j < i THEN m[j] ELSE m[j + 1]], [k |-> m[i].k, v |-> v])

\* An eviction that drops the entry just put.
EvictNewest(m) == SubSeq(m, 1, Len(m) - 1)

\* line 43: popitem(last=False)
Evict(m) == Tail(m)

\* _LRU.get: [m, ret], ret = <<>> for None and <<v>> for a hit
LruGet(cap, m, k) ==
    IF cap = 0 \/ LruIndex(m, k) = 0 THEN [m |-> m, ret |-> <<>>]
    ELSE LET i == LruIndex(m, k)
         IN [m |-> MoveToEnd(m, i, m[i].v), ret |-> <<m[i].v>>]

\* _LRU.put
LruPut(cap, m, k, v) ==
    IF cap = 0 THEN m
    ELSE IF LruIndex(m, k) # 0 THEN MoveToEnd(m, LruIndex(m, k), v)
    ELSE LET a == Append(m, [k |-> k, v |-> v])
         IN IF Len(a) > cap THEN Evict(a) ELSE a

InitLru ==
    /\ \E cap \in LruCaps : lru = [NoLru EXCEPT !.cap = LruCap(cap)]
    /\ cch = NoCache
    /\ LoadAtRest
    /\ OthersAtRest
    /\ vecs = <<>>
    /\ meta = <<>>
    /\ diskVec = NoFile
    /\ diskMeta = NoFile
    /\ tmpVec = NoFile
    /\ tmpMeta = NoFile
    /\ pc = "idle"
    /\ call = NoCall
    /\ nextRec = 0
    /\ srch = NoSearch
    /\ hyb = NoHybrid
    /\ sem = NoSemantic
    /\ EmbedderAtRest

\* A thread calls get(k) or put(k, v): lines 28 and 35 return at once when cap
\* is 0, otherwise the thread goes on to take the lock.
LruCall(t, op, k, v) ==
    /\ lru.thr[t].pc = "idle"
    /\ Len(lru.used) < MaxLruOps
    /\ lru' = [lru EXCEPT
                  !.thr[t] = IF lru.cap = 0 THEN NoLruCall
                             ELSE [pc |-> "wait", op |-> op, k |-> k, v |-> v],
                  !.last = IF lru.cap = 0
                           THEN <<[op |-> op, k |-> k, ret |-> <<>>, before |-> lru.m,
                                   used |-> lru.used]>>
                           ELSE @]
    /\ UNCHANGED <<storeVars, srch, embedVars, hyb, sem, notLru>>

\* The thread holds the lock: lines 30-33 of get, lines 37-43 of put.
LruRun(t) ==
    /\ lru.thr[t].pc = "wait"
    /\ LET c == lru.thr[t]
           g == LruGet(lru.cap, lru.m, c.k)
       IN lru' = [lru EXCEPT
                    !.m = IF c.op = "get" THEN g.m ELSE LruPut(lru.cap, lru.m, c.k, c.v),
                    !.thr[t] = NoLruCall,
                    !.used = IF c.op = "put" \/ g.ret # <<>> THEN Append(@, c.k) ELSE @,
                    !.last = <<[op |-> c.op, k |-> c.k,
                                ret |-> IF c.op = "get" THEN g.ret ELSE <<>>,
                                before |-> lru.m, used |-> lru.used]>>]
    /\ UNCHANGED <<storeVars, srch, embedVars, hyb, sem, notLru>>

NextLru ==
    \/ \E t \in LruThreads, op \in {"get", "put"}, k \in LruKeys, v \in LruVals :
          LruCall(t, op, k, v)
    \/ \E t \in LruThreads : LruRun(t)

SpecLru == InitLru /\ [][NextLru]_vars

(***************************************************************************)
(* embed_cache.EmbedCache: table embeds (cacheRows) behind the hot LRU.    *)
(* A call runs alone here.  Timestamps are int(time.time()), read off now. *)
(***************************************************************************)
MaxCacheOps == 3

CacheVecs == { <<1>>, <<2>> }
CacheCeilings == {1, 2}

CacheTuples == { [hash |-> h, model |-> mo, dim |-> 1, vec |-> v] :
                    h \in CacheHashes, mo \in CacheModels, v \in CacheVecs }
\* put_many of nothing, of one tuple, of two tuples of different models
CacheTupleLists ==
    { <<>> } \cup { <<t>> : t \in CacheTuples }
        \cup { <<t, u>> : t \in { x \in CacheTuples : x.model = "m1" /\ x.vec = <<1>> },
                          u \in { x \in CacheTuples : x.model = "m2" /\ x.vec = <<2>> } }
CacheKeys == CacheHashes \X CacheModels
\* get_many of one key, of two keys the first of which names hash h1
CacheKeyLists ==
    { <<k>> : k \in CacheKeys }
        \cup { <<k, j>> : k \in { x \in CacheKeys : x[1] = "h1" }, j \in CacheKeys }

\* lines 71, 89, 110: f"{m}:{h}"
LruKey(model, h) == model \o ":" \o h

\* hits[h] = v
DictPut(d, h, v) == [x \in DOMAIN d \cup {h} |-> IF x = h THEN v ELSE d[x]]

\* lines 70-75: the keys are looked up in the LRU, in order
RECURSIVE LruProbe(_, _, _, _, _)
LruProbe(cap, m, keys, hits, toFetch) ==
    IF keys = <<>> THEN [m |-> m, hits |-> hits, toFetch |-> toFetch]
    ELSE LET h == Head(keys)[1]
             mo == Head(keys)[2]
             g == LruGet(cap, m, LruKey(mo, h))
         IN IF g.ret # <<>>
            THEN LruProbe(cap, g.m, Tail(keys), DictPut(hits, h, g.ret[1]), toFetch)
            ELSE LruProbe(cap, g.m, Tail(keys), hits, Append(toFetch, Head(keys)))

\* line 86: the filter on a fetched row
RowWanted(r, toFetch) ==
    \/ \E i \in 1..Len(toFetch) : toFetch[i] = <<r.hash, r.model>>
    \/ \E i \in 1..Len(toFetch) : r.model = toFetch[i][2]

\* lines 85-89: the fetched rows, in the order the SELECT gave them
RECURSIVE TakeRows(_, _, _, _, _)
TakeRows(cap, m, hits, fetched, toFetch) ==
    IF fetched = <<>> THEN [m |-> m, hits |-> hits]
    ELSE LET r == Head(fetched)
         IN IF RowWanted(r, toFetch)
            THEN TakeRows(cap, LruPut(cap, m, LruKey(r.model, r.hash), r.vec),
                          DictPut(hits, r.hash, r.vec), Tail(fetched), toFetch)
            ELSE TakeRows(cap, m, hits, Tail(fetched), toFetch)

\* line 84: SELECT ... WHERE hash IN (...), in any order
Selected(rows, toFetch) ==
    LET S == { r \in rows : \E i \in 1..Len(toFetch) : toFetch[i][1] = r.hash }
    IN { f \in [1..Cardinality(S) -> S] : \A i, j \in 1..Cardinality(S) : f[i] = f[j] => i = j }

\* EmbedCache.get_many for one order of the fetched rows: [m, hits]
GetMany(cap, m, keys, fetched) ==
    LET p == LruProbe(cap, m, keys, EmptyMap, <<>>)
    IN IF p.toFetch = <<>> THEN [m |-> p.m, hits |-> p.hits]
       ELSE TakeRows(cap, p.m, p.hits, fetched, p.toFetch)

\* lines 99-102: INSERT OR REPLACE, row by row (hash is the primary key)
RECURSIVE InsertOrReplace(_, _, _)
InsertOrReplace(rows, tuples, ts) ==
    IF tuples = <<>> THEN rows
    ELSE LET t == Head(tuples)
         IN InsertOrReplace({ r \in rows : r.hash # t.hash }
                               \cup {[hash |-> t.hash, model |-> t.model, dim |-> t.dim,
                                      ts |-> ts, vec |-> t.vec]},
                            Tail(tuples), ts)

\* A count of rows to delete without the floor of one.
ToDeleteNoFloor(n) == (5 * n) \div 100

\* line 107: max(1, int(0.05 * n)); int(0.05 * n) is n // 20 for every n up
\* to 12,000,000, past the default _MAX_ROWS
ToDelete(n) == IF (5 * n) \div 100 > 1 THEN (5 * n) \div 100 ELSE 1

\* lines 104-108: the row sets that can be deleted (ORDER BY ts ASC LIMIT: rows of
\* equal ts in any order); none to delete when the count is within _MAX_ROWS
Pruned(rows, maxRows) ==
    IF Cardinality(rows) <= maxRows THEN { {} }
    ELSE { D \in SUBSET rows :
             /\ Cardinality(D) = Min(ToDelete(Cardinality(rows)), Cardinality(rows))
             /\ \A r \in D, q \in rows \ D : r.ts <= q.ts }

\* lines 109-110
RECURSIVE LruPutAll(_, _, _)
LruPutAll(cap, m, tuples) ==
    IF tuples = <<>> THEN m
    ELSE LET t == Head(tuples)
         IN LruPutAll(cap, LruPut(cap, m, LruKey(t.model, t.hash), t.vec), Tail(tuples))

RECURSIVE Remember(_, _)
Remember(lastPut, tuples) ==
    IF tuples = <<>> THEN lastPut
    ELSE Remember([lastPut EXCEPT ![<<Head(tuples).hash, Head(tuples).model>>] = Head(tuples).vec],
                  Tail(tuples))

InitCache ==
    /\ \E cap \in {0, 1, 2} : lru = [NoLru EXCEPT !.cap = LruCap(cap)]
    /\ \E c \in CacheCeilings : cch = [NoCache EXCEPT !.maxRows = c]
    /\ LoadAtRest
    /\ OthersAtRest
    /\ vecs = <<>>
    /\ meta = <<>>
    /\ diskVec = NoFile
    /\ diskMeta = NoFile
    /\ tmpVec = NoFile
    /\ tmpMeta = NoFile
    /\ pc = "idle"
    /\ call = NoCall
    /\ nextRec = 0
    /\ srch = NoSearch
    /\ hyb = NoHybrid
    /\ sem = NoSemantic
    /\ EmbedderAtRest

\* EmbedCache.put_many
CachePut(tuples) ==
    /\ cch.ops < MaxCacheOps
    /\ IF tuples = <<>>
       THEN UNCHANGED <<cacheRows, lru>>
       ELSE /\ LET ins == InsertOrReplace(cacheRows, tuples, now)
               IN \E D \in Pruned(ins, cch.maxRows) : cacheRows' = ins \ D
            /\ lru' = [lru EXCEPT !.m = LruPutAll(lru.cap, lru.m, tuples)]
    /\ cch' = [cch EXCEPT !.lastPut = Remember(@, tuples), !.ops = @ + 1]
    /\ UNCHANGED <<ecfg, now, lim, epc, ecall, hist>>
    /\ UNCHANGED <<storeVars, srch, hyb, sem, notCache>>

\* EmbedCache.get_many
CacheGet(keys) ==
    /\ cch.ops < MaxCacheOps
    /\ \E fetched \in Selected(cacheRows, LruProbe(lru.cap, lru.m, keys, EmptyMap, <<>>).toFetch) :
          LET g == GetMany(lru.cap, lru.m, keys, fetched)
          IN /\ lru' = [lru EXCEPT !.m = g.m]
             /\ cch' = [cch EXCEPT !.got = <<[keys |-> keys, hits |-> g.hits]>>, !.ops = @ + 1]
    /\ UNCHANGED embedVars
    /\ UNCHANGED <<storeVars, srch, hyb, sem, notCache>>

(***************************************************************************)
(* reduction.py: the projection matrix, its cache file, Reducer.reduce.    *)
(* Numbers here are integers counted in halves of the float32 spacing: a   *)
(* float32 value is an even number, a float64 value that is no float32     *)
(* value is an odd one.                                                    *)
(***************************************************************************)
MaxRpOps == 3

\* astype(np.float32) / np.asarray(..., dtype=np.float32) of one number
ToFloat32(x) == 2 * ((x + 1) \div 2)
AsFloat32(v) == [i \in DOMAIN v |-> ToFloat32(v[i])]

\* rng.standard_normal((rows, cols)) of default_rng(seed), scaled: float32
\* entries fixed by the seed and the position
GaussianEntry(i, j, seed) == 2 * (((i * j + seed) % 3) - 1)
GaussianMatrix(rows, cols, seed) ==
    [i \in 1..rows |-> [j \in 1..cols |-> GaussianEntry(i, j, seed)]]

NpyOf(M) == [kind |-> "npy", M |-> M]
DamagedNpy == [kind |-> "damaged", M |-> <<>>]
\* what the cache file of a triple can hold when a process starts: nothing,
\* the matrix an earlier process saved, a file np.load rejects, a matrix of
\* another shape
NpyFiles(t) ==
    { NoNpy, NpyOf(GaussianMatrix(t[2], t[1], t[3])), DamagedNpy,
      NpyOf(GaussianMatrix(1, 1, t[3])) }

\* lines 18-24: the file exists, np.load succeeds and the shape matches
NpyUsableAnyShape(f, rows, cols) == f.kind = "npy"
NpyUsable(f, rows, cols) ==
    /\ f.kind = "npy"
    /\ Len(f.M) = rows
    /\ \A i \in 1..Len(f.M) : Len(f.M[i]) = cols

\* the outcomes of np.save(cache, M) inside its try
SaveOutcomes == {"saved", "refused", "cut"}
NpyAfterSave(f, M, outcome) ==
    CASE outcome = "saved" -> NpyOf(M)
      [] outcome = "refused" -> f
      [] OTHER -> DamagedNpy

RpVecs == { <<2>>, <<1>>, <<2, 4>>, <<1, 2>>, <<2, 0, 2>>, <<3, 2, 2>>, <<2, 2, 2, 2>> }

\* Reducer.reduce of a Reducer r on vec: [raised, out]
ReducerReduce(r, vec) ==
    LET x == AsFloat32(vec)
    IN IF Len(x) = r.out_dim
       THEN [raised |-> FALSE, out |-> AsFloat32(x)]
       ELSE IF Len(x) # r.in_dim
            THEN [raised |-> TRUE, out |-> <<>>]
            ELSE [raised |-> FALSE,
                  out |-> AsFloat32([i \in 1..Len(r.R) |-> Dot(r.R[i], x) \div 2])]

\* a store no call has used
StoreUnused ==
    /\ vecs = <<>>
    /\ meta = <<>>
    /\ diskVec = NoFile
    /\ diskMeta = NoFile
    /\ tmpVec = NoFile
    /\ tmpMeta = NoFile
    /\ pc = "idle"
    /\ call = NoCall
    /\ nextRec = 0

InitReducer ==
    /\ StoreUnused
    /\ srch = NoSearch
    /\ hyb = NoHybrid
    /\ sem = NoSemantic
    /\ EmbedderAtRest
    /\ LoadAtRest
    /\ LruAtRest
    /\ \E fs \in [RpTriples -> UNION { NpyFiles(t) : t \in RpTriples }] :
          /\ \A t \in RpTriples : fs[t] \in NpyFiles(t)
          /\ rp = [NoReducer EXCEPT !.files = fs]
    /\ ge = NoGetEmbedder
    /\ strm = NoStream
    /\ ConcAtRest
    /\ chk = NoChunker

\* Reducer(in_dim, out_dim, seed): __init__ with _gaussian_matrix
RpConstruct(t, outcome) ==
    LET rows == t[2]
        cols == t[1]
        f == rp.files[t]
        loaded == NpyUsable(f, rows, cols)
        M == IF loaded THEN f.M ELSE GaussianMatrix(rows, cols, t[3])
    IN /\ rp.n < MaxRpOps
       /\ loaded => outcome = "saved"
       /\ rp' = [rp EXCEPT
                   !.files[t] = IF loaded THEN f ELSE NpyAfterSave(f, M, outcome),
                   !.cur = <<[in_dim |-> t[1], out_dim |-> t[2], seed |-> t[3], R |-> M,
                              found |-> f.kind, again |-> rp.first[t] # <<>>]>>,
                   !.first[t] = IF rp.first[t] = <<>> THEN <<M>> ELSE rp.first[t],
                   !.last = <<>>,
                   !.n = rp.n + 1]
       /\ UNCHANGED <<storeVars, srch, embedVars, hyb, sem, notReducer>>

\* the process ends; the files stay
RpRestart ==
    /\ rp.cur # <<>>
    /\ rp' = [rp EXCEPT !.cur = <<>>, !.last = <<>>]
    /\ UNCHANGED <<storeVars, srch, embedVars, hyb, sem, notReducer>>

\* reduce(vec) on the Reducer of the running process
RpReduce(vec) ==
    /\ rp.cur # <<>>
    /\ rp.n < MaxRpOps
    /\ LET r == rp.cur[1]
           res == ReducerReduce(r, vec)
       IN rp' = [rp EXCEPT
                   !.last = <<[t |-> <<r.in_dim, r.out_dim, r.seed>>, vec |-> vec,
                               raised |-> res.raised, out |-> res.out, R |-> r.R]>>,
                   !.n = rp.n + 1]
    /\ UNCHANGED <<storeVars, srch, embedVars, hyb, sem, notReducer>>

NextReducer ==
    \/ \E t \in RpTriples, outcome \in SaveOutcomes : RpConstruct(t, outcome)
    \/ RpRestart
    \/ \E vec \in RpVecs : RpReduce(vec)

SpecReducer == InitReducer /\ [][NextReducer]_vars

(***************************************************************************)
(* chunker.py: iter_chunked_items.  An item is the number of bytes of its  *)
(* json.dumps text; a payload is its number of bytes.                      *)
(***************************************************************************)
MaxItems == 3
\* bytes of {} and of items such as {"a": 1} and {"a": "xyz"}
ItemSizes == { 2, 8, 12 }
ChunkLimits == { 16, 52, 64 }
ItemLists == UNION { [1..n -> ItemSizes] : n \in 0..MaxItems }

\* bytes of the decimal text of n
RECURSIVE Digits(_)
Digits(n) == IF n < 10 THEN 1 ELSE 1 + Digits(n \div 10)

RECURSIVE SumSeq(_)
SumSeq(q) == IF q = <<>> THEN 0 ELSE Head(q) + SumSeq(Tail(q))

\* bytes of '{"items": [' and of '], "next": null, "approx_bytes": ' and '}'
EnvelopeHead == 11
EnvelopeTail == 34
\* len(json.dumps({"items": batch, "next": None, "approx_bytes": approx}))
EnvelopeLen(batch, approx) ==
    EnvelopeHead + SumSeq(batch) + (IF Len(batch) > 1 THEN 2 * (Len(batch) - 1) ELSE 0)
    + EnvelopeTail + Digits(approx)
\* len("\n".join(json.dumps(x) for x in batch) + "\n")
NdjsonLen(batch) == SumSeq(batch) + Len(batch)

\* lines 31 and 41
Projected(envelope, batch, approx) ==
    IF envelope THEN EnvelopeLen(batch, approx) ELSE approx
\* lines 33-38, 48-52, 59-63
PayloadLen(envelope, batch, approx) ==
    IF envelope THEN EnvelopeLen(batch, approx) ELSE NdjsonLen(batch)
Chunk(envelope, batch, payloadApprox, approx) ==
    [bytes |-> PayloadLen(envelope, batch, payloadApprox), n |-> Len(batch),
     approx |-> approx, items |-> batch]

InitChunker ==
    /\ StoreUnused
    /\ srch = NoSearch
    /\ hyb = NoHybrid
    /\ sem = NoSemantic
    /\ EmbedderAtRest
    /\ LoadAtRest
    /\ LruAtRest
    /\ rp = NoReducer
    /\ ge = NoGetEmbedder
    /\ strm = NoStream
    /\ ConcAtRest
    /\ \E items \in ItemLists, limit \in ChunkLimits, envelope \in BOOLEAN :
          chk = [NoChunker EXCEPT !.pc = "loop", !.items = items, !.chunkBytes = limit,
                                  !.envelope = envelope]

\* lines 27-56: one turn of the loop
ChunkStep ==
    /\ chk.pc = "loop"
    /\ chk.items # <<>>
    /\ LET item == Head(chk.items)
           alone == Projected(chk.envelope, <<item>>, item)
           projected == Projected(chk.envelope, Append(chk.batch, item), chk.size + item)
       IN IF chk.batch = <<>> /\ alone > chk.chunkBytes
          THEN chk' = [chk EXCEPT !.items = Tail(@),
                                  !.out = Append(@, Chunk(chk.envelope, <<item>>, alone, alone))]
          ELSE IF projected <= chk.chunkBytes
          THEN chk' = [chk EXCEPT !.items = Tail(@), !.batch = Append(@, item),
                                  !.size = @ + item]
          ELSE chk' = [chk EXCEPT !.items = Tail(@), !.batch = <<item>>, !.size = item,
                                  !.out = IF chk.batch # <<>>
                                          THEN Append(@, Chunk(chk.envelope, chk.batch,
                                                               chk.size, chk.size))
                                          ELSE @]
    /\ UNCHANGED <<storeVars, srch, embedVars, hyb, sem, notChunker>>

\* lines 58-64: the items are used up
ChunkFlush ==
    /\ chk.pc = "loop"
    /\ chk.items = <<>>
    /\ chk' = [chk EXCEPT !.pc = "done",
                          !.out = IF chk.batch # <<>>
                                  THEN Append(@, Chunk(chk.envelope, chk.batch,
                                                       chk.size, chk.size))
                                  ELSE @]
    /\ UNCHANGED <<storeVars, srch, embedVars, hyb, sem, notChunker>>

NextChunker == ChunkStep \/ ChunkFlush

SpecChunker == InitChunker /\ [][NextChunker]_vars

(***************************************************************************)
(* The store on a file system whose operations can fail: a step of _save   *)
(* raises OSError.  The exception leaves _save and the calling upsert or   *)
(* delete_by_ids, which assigned self.vecs and self.meta before saving;    *)
(* the instance stays in use.  When the save is the healing save of _load, *)
(* the constructor raises and there is no instance.                        *)
(***************************************************************************)
SaveFail ==
    /\ pc \in SavePcs
    /\ IF call.op = "load"
       THEN /\ pc' = "crashed"
            /\ vecs' = <<>>
            /\ meta' = <<>>
       ELSE /\ pc' = "idle"
            /\ UNCHANGED <<vecs, meta>>
    /\ call' = [call EXCEPT !.raised = TRUE, !.ioError = TRUE]
    /\ UNCHANGED <<diskVec, diskMeta, tmpVec, tmpMeta, nextRec>>
    /\ UNCHANGED nonStoreVars

\* The calls made on the failing file system.
IOBatches == { <<ChA>>, <<ChB>>, <<ChA, ChB>>, <<ChShort, ChB>>, <<ChShort>> }

IOIdLists == { {"a"}, {"zz"} }

NextIO ==
    \/ \E batch \in IOBatches : Upsert(batch)
    \/ \E ids \in IOIdLists : DeleteByIds(ids)
    \/ Load
    \/ SaveWriteTmpVec
    \/ SaveWriteTmpMeta
    \/ SaveReplaceVec
    \/ SaveReplaceMeta
    \/ SaveReload
    \/ SaveFail

SpecIO == Init /\ [][NextIO]_vars

(***************************************************************************)
(* NumpyStore.search                                                       *)
(***************************************************************************)
OverFetch == 5       \* line 148: take = k * 5
MaxSearchRows == 6   \* rows of the stores that search is run on

\* A similarity score s * sqrt(num / den), kept exactly: s is its sign and
\* num / den (a reduced fraction) its square.
ZeroScore == [sgn |-> 0, num |-> 0, den |-> 1]
MkScore(d, nn) ==
    IF d = 0 \/ nn = 0 THEN ZeroScore
    ELSE LET g == Gcd(d * d, nn)
         IN [sgn |-> IF d > 0 THEN 1 ELSE -1, num |-> (d * d) \div g, den |-> nn \div g]

\* s >= t as real numbers
ScoreGE(s, t) ==
    IF s.sgn # t.sgn THEN s.sgn > t.sgn
    ELSE IF s.sgn = 1 THEN s.num * t.den >= t.num * s.den
    ELSE IF s.sgn = -1 THEN s.num * t.den <= t.num * s.den
    ELSE TRUE

\* _dot_on_unit_rows, lines 85-94: B @ (a / ||a||) for the unit (or zero) rows B;
\* all zeros when ||a|| = 0, and when ||a|| = inf, a / ||a|| being all zeros.
DotOnUnitRows(a, B) ==
    [i \in 1..Len(B) |->
        IF SumSq(a) = 0 \/ SumSq(a) > F32MaxSq THEN ZeroScore
        ELSE MkScore(Dot(B[i].u, a), SumSq(B[i].u) * SumSq(a))]

\* line 148
TakeOf(k) == IF k > 0 THEN k * OverFetch ELSE 0

\* line 149: np.argsort(-scores)[:take].  The default sort kind is not stable, so
\* every order of the indices by non-increasing score is a possible result.
RECURSIVE TopOrders(_, _, _)
TopOrders(scores, S, n) ==
    IF n = 0 \/ S = {} THEN { <<>> }
    ELSE LET best == { i \in S : \A j \in S : ScoreGE(scores[i], scores[j]) }
         IN UNION { { <<i>> \o t : t \in TopOrders(scores, S \ {i}, n - 1) } : i \in best }

\* A filter that tests the space only.
PassesSpaceOnly(m, spaces, types) == ~(spaces # {} /\ m.space \notin spaces)

\* lines 154-157: the row passes the space and type filters that are given
Passes(m, spaces, types) ==
    /\ ~(spaces # {} /\ m.space \notin spaces)
    /\ ~(types # {} /\ m.type \notin types)

\* lines 152-162: the loop over idx, stopping once k hits are collected
RECURSIVE Scan(_, _, _, _, _, _, _)
Scan(idx, out, k, spaces, types, ms, scores) ==
    IF idx = <<>> THEN out
    ELSE LET i == Head(idx) IN
         IF ~Passes(ms[i], spaces, types)
         THEN Scan(Tail(idx), out, k, spaces, types, ms, scores)
         ELSE LET out2 == Append(out, [m |-> ms[i], score |-> scores[i]])
              IN IF Len(out2) >= k THEN out2
                 ELSE Scan(Tail(idx), out2, k, spaces, types, ms, scores)

\* The records the searched stores are built from, one id each, and the stores:
\* what is left of an upsert of all of them after deleting any of them.
SearchChunk(id, x, y, space, type) ==
    [id |-> id, space |-> space, type |-> type, emb |-> ListEmb(GoodVec(x, y))]
SearchBatch ==
    << SearchChunk("r1", 1, 0, "S", "page"),
       SearchChunk("r2", 2, 0, "T", "page"),
       SearchChunk("r3", 1, 1, "S", "code"),
       SearchChunk("r4", 0, 1, "T", "code"),
       SearchChunk("r5", 3, 0, "T", "code"),
       SearchChunk("r6", 0, 0, "S", "page"),
       SearchChunk("r7", 0, 2, "S", "page") >>
SearchIdLists == { ids \in SUBSET IdsOfBatch(SearchBatch) :
                      Len(SearchBatch) - Cardinality(ids) <= MaxSearchRows }

Queries == { GoodVec(3, 0), GoodVec(-1, 0), GoodVec(0, 0) }
Ks == { -1, 0, 1, 2 }
SpaceFilters == { {}, {"S"}, {"T"} }
TypeFilters == { {}, {"page"} }

InitSearch ==
    /\ \E ids \in SearchIdLists :
          LET r == Collect(SearchBatch, 1)
              keep == Keep(r.meta, ids)
          IN /\ vecs = Take(r.vecs, keep)
             /\ meta = Take(r.meta, keep)
    /\ diskVec = File(vecs)
    /\ diskMeta = File(meta)
    /\ tmpVec = NoFile
    /\ tmpMeta = NoFile
    /\ pc = "idle"
    /\ call = NoCall
    /\ nextRec = Len(SearchBatch)
    /\ srch = NoSearch
    /\ hyb = NoHybrid
    /\ LibAtRest
    /\ sem = NoSemantic
    /\ EmbedderAtRest

\* NumpyStore.search, applied once to the store drawn by InitSearch
Search(q, k, spaces, types) ==
    /\ pc = "idle"
    /\ ~srch.done
    /\ LET scores == DotOnUnitRows(q, vecs) IN
       \E idx \in TopOrders(scores, 1..Len(vecs), Min(TakeOf(k), Len(vecs))) :
          srch' = [q |-> q, k |-> k, spaces |-> spaces, types |-> types, order |-> idx,
                   hits |-> Scan(idx, <<>>, k, spaces, types, meta, scores),
                   done |-> TRUE]
    /\ UNCHANGED storeVars
    /\ UNCHANGED embedVars
    /\ UNCHANGED <<hyb, sem, libVars>>

NextSearch ==
    \E q \in Queries, k \in Ks, spaces \in SpaceFilters, types \in TypeFilters :
        Search(q, k, spaces, types)

SpecSearch == InitSearch /\ [][NextSearch]_vars

(***************************************************************************)
(* One record upserted into an empty store, then searched for by its own   *)
(* embedding.                                                              *)
(***************************************************************************)
\* components of the embeddings: small values and one whose square is beyond
\* the float32 range
RoundTripValues == { -3, -1, 0, 1, 2, 40 }
RoundTripVecs == { GoodVec(x, y) : x \in RoundTripValues, y \in RoundTripValues }
RoundTripChunk(v) == [id |-> "a", space |-> "S", type |-> "page", emb |-> ListEmb(v)]
RoundTripKs == { 1, 2 }

InitRoundTrip ==
    /\ StoreUnused
    /\ srch = NoSearch
    /\ hyb = NoHybrid
    /\ sem = NoSemantic
    /\ EmbedderAtRest
    /\ LibAtRest

NextRoundTrip ==
    \/ \E v \in RoundTripVecs : vecs = <<>> /\ nextRec = 0 /\ Upsert(<<RoundTripChunk(v)>>)
    \/ SaveWriteTmpVec
    \/ SaveWriteTmpMeta
    \/ SaveReplaceVec
    \/ SaveReplaceMeta
    \/ SaveReload
    \/ \E k \in RoundTripKs :
          /\ Len(vecs) = 1
          /\ call.op = "upsert"
          /\ Search(call.batch[1].emb.data, k, {}, {})

SpecRoundTrip == InitRoundTrip /\ [][NextRoundTrip]_vars

(***************************************************************************)
(* OpenAIEmbedder.embed_texts, one action per step between which time can  *)
(* pass.                                                                   *)
(***************************************************************************)
\* A miss list built from the last index down.
MissesDescending(out) ==
    LET up == SelectSeq([i \in 1..Len(out) |-> i], LAMBDA i : out[i] = <<>>)
    IN [j \in 1..Len(up) |-> up[Len(up) + 1 - j]]

\* lines 204-211: to_query, the indices without a usable cache hit, ascending
Misses(out) == SelectSeq([i \in 1..Len(out) |-> i], LAMBDA i : out[i] = <<>>)
TextsAt(texts, ix) == [j \in 1..Len(ix) |-> texts[ix[j]]]

\* The request counts that mark a window: ceil(B * H) + 1 for the settings as
\* configured, and for the settings as the limiter keeps them.
MarkCountRaw == CeilOf(ecfg.rpm, ecfg.headPct) + 1
MarkCountEff == CeilOf(Rpm, Headroom) + 1

\* lines 195-215: cache lookup, then account() for the texts to query
EmbedBegin(texts, cacheOn) ==
    /\ epc = "idle"
    /\ hist.calls < MaxEmbedCalls
    /\ LET prev == IF ecall.status = "ok"
                   THEN [ok |-> TRUE, texts |-> ecall.texts, cacheOn |-> ecall.cacheOn,
                         result |-> ecall.result]
                   ELSE ecall.prev
           got == IF cacheOn
                  THEN AdapterGetMany(cacheRows, { <<HashText(texts[i]), Model>> : i \in 1..Len(texts) })
                  ELSE EmptyMap
           out == [i \in 1..Len(texts) |->
                     IF HashText(texts[i]) \in DOMAIN got /\ Len(got[HashText(texts[i])]) = ecfg.dim
                     THEN got[HashText(texts[i])] ELSE <<>>]
           toQuery == IF texts = <<>> THEN <<>> ELSE Misses(out)
           base == [NoEmbedCall EXCEPT !.texts = texts, !.cacheOn = cacheOn, !.prev = prev,
                                       !.toQuery = toQuery, !.out = out, !.lookup = out,
                                       !.backoff = BackoffMin,
                                       !.preMarkRaw = hist.markRaw,
                                       !.preMarkEff = hist.markEff]
       IN IF toQuery = <<>>
          THEN /\ ecall' = [base EXCEPT !.status = "ok", !.result = out]
               /\ hist' = [hist EXCEPT !.calls = @ + 1]
               /\ UNCHANGED <<lim, epc>>
          ELSE LET l2 == Account(lim, now, SumTokens(TextsAt(texts, toQuery)), 1) IN
               /\ lim' = l2
               /\ ecall' = [base EXCEPT !.status = "running", !.accounts = 1]
               /\ hist' = [calls |-> hist.calls + 1,
                           markRaw |-> IF l2.req >= MarkCountRaw
                                       THEN Max(hist.markRaw, l2.start + Window)
                                       ELSE hist.markRaw,
                           markEff |-> IF Rpm > 0 /\ l2.req >= MarkCountEff
                                       THEN Max(hist.markEff, l2.start + Window)
                                       ELSE hist.markEff]
               /\ epc' = "maybe_sleep"
    /\ UNCHANGED <<ecfg, now, cacheRows>>
    /\ UNCHANGED storeVars
    /\ UNCHANGED <<srch, hyb, sem, libVars>>

\* line 216, _Limiter.maybe_sleep: sleep to the end of the window when over budget
EmbedMaybeSleep ==
    /\ epc = "maybe_sleep"
    /\ LET l1 == Roll(lim, now) IN
       IF ~NeedSleep(l1)
       THEN /\ lim' = l1
            /\ now' = now
            /\ UNCHANGED ecall
       ELSE LET end == l1.start + Window
                sleep == Max(0, end - now)
            IN \E over \in 0..1 :
                  /\ now' = IF sleep > 0 THEN now + sleep + over ELSE now
                  /\ lim' = Roll(IF sleep > 0 THEN [l1 EXCEPT !.cooldown = end] ELSE l1, now')
                  /\ ecall' = [ecall EXCEPT !.slept = sleep]
    /\ epc' = "attempt"
    /\ UNCHANGED <<ecfg, cacheRows, hist>>
    /\ UNCHANGED storeVars
    /\ UNCHANGED <<srch, hyb, sem, libVars>>

\* lines 219-234: the provider call succeeds, with one vector per input
EmbedAttemptOk ==
    /\ epc = "attempt"
    /\ LET d == ecfg.provDim
           ordered == TextsAt(ecall.texts, ecall.toQuery)
           vecsNew == [j \in 1..Len(ordered) |-> EnforceDim(ProviderVec(ordered[j], d))]
           tuples == { [hash |-> HashText(ordered[j]), model |-> Model, dim |-> ecfg.dim,
                        vec |-> vecsNew[j]] : j \in 1..Len(ordered) }
           out == [i \in 1..Len(ecall.texts) |->
                     IF \E j \in 1..Len(ecall.toQuery) : ecall.toQuery[j] = i
                     THEN vecsNew[CHOOSE j \in 1..Len(ecall.toQuery) : ecall.toQuery[j] = i]
                     ELSE ecall.out[i]]
       IN /\ cacheRows' = IF ecall.cacheOn THEN AdapterPutMany(cacheRows, tuples) ELSE cacheRows
          /\ ecall' = [ecall EXCEPT !.calls = @ + 1,
                                    !.issuedAt = IF @ < 0 THEN now ELSE @,
                                    !.sent = ordered,
                                    !.out = out, !.result = out, !.status = "ok"]
    /\ epc' = "idle"
    /\ UNCHANGED <<ecfg, now, lim, hist>>
    /\ UNCHANGED storeVars
    /\ UNCHANGED <<srch, hyb, sem, libVars>>

\* lines 222-234 and 241: the provider answers with fewer vectors than inputs.
\* zip() fills the first of them, the loop is left, and the final list
\* comprehension raises KeyError for the first index without a vector (the
\* local out is lost with the call).
EmbedAttemptShort ==
    /\ epc = "attempt"
    /\ LET d == ecfg.provDim
           ordered == TextsAt(ecall.texts, ecall.toQuery)
           n == Len(ordered) - 1
           vecsNew == [j \in 1..n |-> EnforceDim(ProviderVec(ordered[j], d))]
           tuples == { [hash |-> HashText(ordered[j]), model |-> Model, dim |-> ecfg.dim,
                        vec |-> vecsNew[j]] : j \in 1..n }
       IN /\ cacheRows' = IF ecall.cacheOn THEN AdapterPutMany(cacheRows, tuples) ELSE cacheRows
          /\ ecall' = [ecall EXCEPT !.calls = @ + 1,
                                    !.issuedAt = IF @ < 0 THEN now ELSE @,
                                    !.sent = ordered,
                                    !.status = "raised"]
    /\ epc' = "idle"
    /\ UNCHANGED <<ecfg, now, lim, hist>>
    /\ UNCHANGED storeVars
    /\ UNCHANGED <<srch, hyb, sem, libVars>>

\* lines 235-240: the provider call fails; retry after a backoff or give up
\* A retry loop that never gives up.
GiveUpNever(attempt) == FALSE

\* line 236: the failed attempt was the last one
GiveUp(attempt) == attempt + 1 >= MaxRetries

EmbedAttemptFail ==
    /\ epc = "attempt"
    /\ IF GiveUp(ecall.attempt)
       THEN /\ ecall' = [ecall EXCEPT !.calls = @ + 1, !.fails = @ + 1,
                                      !.issuedAt = IF @ < 0 THEN now ELSE @,
                                      !.sent = TextsAt(ecall.texts, ecall.toQuery),
                                      !.status = "raised"]
            /\ epc' = "idle"
       ELSE /\ ecall' = [ecall EXCEPT !.calls = @ + 1, !.fails = @ + 1,
                                      !.issuedAt = IF @ < 0 THEN now ELSE @,
                                      !.sent = TextsAt(ecall.texts, ecall.toQuery)]
            /\ epc' = "backoff"
    /\ UNCHANGED <<ecfg, now, lim, cacheRows, hist>>
    /\ UNCHANGED storeVars
    /\ UNCHANGED <<srch, hyb, sem, libVars>>

\* line 240: time.sleep(min(backoff, BACKOFF_MAX)); backoff *= 2.0
EmbedBackoff ==
    /\ epc = "backoff"
    /\ now' = now + BackoffSleep(ecall.backoff)
    /\ ecall' = [ecall EXCEPT !.backoff = 2 * @, !.attempt = @ + 1,
                              !.waits = Append(@, now' - now)]
    /\ epc' = "attempt"
    /\ UNCHANGED <<ecfg, lim, cacheRows, hist>>
    /\ UNCHANGED storeVars
    /\ UNCHANGED <<srch, hyb, sem, libVars>>

\* Time passes.
Tick ==
    /\ now < MaxTime
    /\ now' = now + 1
    /\ UNCHANGED <<ecfg, lim, cacheRows, epc, ecall, hist>>
    /\ UNCHANGED storeVars
    /\ UNCHANGED <<srch, hyb, sem, libVars>>

\* The limiter settings the environment may give: no / a small / a large RPM
\* budget, no / a small TPM budget, headroom below, inside and above [0.1, 1].
LimiterCfg(rpm, tpm, headPct) ==
    [DefaultCfg EXCEPT !.rpm = rpm, !.tpm = tpm, !.headPct = headPct]
Configs ==
    { LimiterCfg(2, 0, 50), LimiterCfg(2, 3, 50), LimiterCfg(2, 0, 150),
      LimiterCfg(0, 0, 50), LimiterCfg(20, 0, 0) }

InitEmbed ==
    /\ vecs = <<>>
    /\ meta = <<>>
    /\ diskVec = NoFile
    /\ diskMeta = NoFile
    /\ tmpVec = NoFile
    /\ tmpMeta = NoFile
    /\ pc = "idle"
    /\ call = NoCall
    /\ nextRec = 0
    /\ srch = NoSearch
    /\ hyb = NoHybrid
    /\ LibAtRest
    /\ sem = NoSemantic
    /\ \E cfg \in Configs : EmbedderWith(cfg)

NextEmbed ==
    \/ \E texts \in TextLists, cacheOn \in BOOLEAN : EmbedBegin(texts, cacheOn)
    \/ EmbedMaybeSleep
    \/ EmbedAttemptOk
    \/ EmbedAttemptShort
    \/ EmbedAttemptFail
    \/ EmbedBackoff
    \/ Tick

SpecEmbed == InitEmbed /\ [][NextEmbed]_vars

\* One calling thread that always takes its next step: its sleeps end and
\* the provider answers or fails every call.
MaxFairCalls == 1    \* embed_texts calls followed to their end

NextEmbedFair ==
    \/ \E texts \in TextLists, cacheOn \in BOOLEAN :
          hist.calls < MaxFairCalls /\ EmbedBegin(texts, cacheOn)
    \/ EmbedMaybeSleep
    \/ EmbedAttemptOk
    \/ EmbedAttemptShort
    \/ EmbedAttemptFail
    \/ EmbedBackoff
    \/ Tick

SpecEmbedFair ==
    /\ InitEmbed
    /\ [][NextEmbedFair]_vars
    /\ WF_vars(EmbedMaybeSleep \/ EmbedAttemptOk \/ EmbedAttemptShort
                   \/ EmbedAttemptFail \/ EmbedBackoff)

(***************************************************************************)
(* _Limiter.account called by several threads on the embedder get_embedder *)
(* shares; _Limiter holds no lock.  A thread is switched between reading   *)
(* and writing a counter (self._tok += ..., self._req += ...) and between  *)
(* the test and the body of _maybe_roll; the body runs in one step.        *)
(***************************************************************************)
MaxAccounts == 3     \* account calls in a run

AccountTokens == {1, 2}

\* line 125: account(tokens, 1) is entered
LtBegin(t, tokens) ==
    /\ lt.thr[t].pc = "idle"
    /\ lt.n < MaxAccounts
    /\ lt' = [lt EXCEPT !.thr[t] = [pc |-> "roll", tokens |-> tokens, tmp |-> 0], !.n = @ + 1]
    /\ UNCHANGED lim

\* line 123: the test of _maybe_roll
LtRollTest(t) ==
    /\ lt.thr[t].pc = "roll"
    /\ lt' = [lt EXCEPT !.thr[t].pc = IF now - lim.start >= Window THEN "rolling" ELSE "read_tok"]
    /\ UNCHANGED lim

\* line 124: the window is started again
LtRoll(t) ==
    /\ lt.thr[t].pc = "rolling"
    /\ lim' = [start |-> now, req |-> 0, tok |-> 0, cooldown |-> 0]
    /\ lt' = [lt EXCEPT !.thr[t].pc = "read_tok", !.req = 0, !.tok = 0]

\* line 127, self._tok += tokens: the read
LtReadTok(t) ==
    /\ lt.thr[t].pc = "read_tok"
    /\ lt' = [lt EXCEPT !.thr[t].pc = "write_tok", !.thr[t].tmp = lim.tok]
    /\ UNCHANGED lim

\* line 127, self._tok += tokens: the write
LtWriteTok(t) ==
    /\ lt.thr[t].pc = "write_tok"
    /\ lim' = [lim EXCEPT !.tok = lt.thr[t].tmp + lt.thr[t].tokens]
    /\ lt' = [lt EXCEPT !.thr[t].pc = "read_req"]

\* line 127, self._req += requests: the read
LtReadReq(t) ==
    /\ lt.thr[t].pc = "read_req"
    /\ lt' = [lt EXCEPT !.thr[t].pc = "write_req", !.thr[t].tmp = lim.req]
    /\ UNCHANGED lim

\* line 127, self._req += requests: the write; account returns
LtWriteReq(t) ==
    /\ lt.thr[t].pc = "write_req"
    /\ lim' = [lim EXCEPT !.req = lt.thr[t].tmp + 1]
    /\ lt' = [lt EXCEPT !.thr[t].pc = "idle", !.req = @ + 1, !.tok = @ + lt.thr[t].tokens]

LtStep(t) ==
    /\ \/ \E tokens \in AccountTokens : LtBegin(t, tokens)
       \/ LtRollTest(t)
       \/ LtRoll(t)
       \/ LtReadTok(t)
       \/ LtWriteTok(t)
       \/ LtReadReq(t)
       \/ LtWriteReq(t)
    /\ UNCHANGED <<ecfg, now, cacheRows, epc, ecall, hist>>
    /\ UNCHANGED <<storeVars, srch, hyb, sem, notLimiter>>

NextLimiter ==
    \/ \E t \in LimiterThreads : LtStep(t)
    \/ Tick

SpecLimiter == InitStore /\ [][NextLimiter]_vars

\* EmbedCache used on its own; time.time() moves on between the calls (Tick)
NextCache ==
    \/ \E tuples \in CacheTupleLists : CachePut(tuples)
    \/ \E keys \in CacheKeyLists : CacheGet(keys)
    \/ Tick

SpecCache == InitCache /\ [][NextCache]_vars

\* The durable table under writes alone
NextCachePut ==
    \/ \E tuples \in CacheTupleLists : CachePut(tuples)
    \/ Tick

SpecCachePut == InitCache /\ [][NextCachePut]_vars

(***************************************************************************)
(* embeddings.py: get_embedder and the offline FakeEmbedder.               *)
(***************************************************************************)
MaxGeOps == 3

DimDefault == Dim
\* dim_hint of the call: 0 stands for None
DimHints == { 0, Dim, Dim + 1 }
\* int(dim_hint or DIM_DEFAULT or 1536)
GeDim(dimHint) == IF dimHint # 0 THEN dimHint ELSE IF DimDefault # 0 THEN DimDefault ELSE Dim

\* line 255: the remote embedder is the one to return
UseRemoteIgnoringAllow(forceLocal) == ~forceLocal /\ ge.hasKey
UseRemote(forceLocal) == ~forceLocal /\ ge.allowRemote /\ ge.hasKey

\* int.from_bytes(blake2b(t)[:8], "big"): one seed per text
TextSeed(t) == IF t = "ab" THEN 1 ELSE 2
\* default_rng(seed).standard_normal(dim), as float32
FakeNormal(seed, dim) == [i \in 1..dim |-> ((i + seed) % 3) - 1]
\* one vector of FakeEmbedder.embed_texts
FakeVec(t, dim) == L2Normalize(FakeNormal(TextSeed(t), dim))

InitGetEmbedder ==
    /\ StoreUnused
    /\ srch = NoSearch
    /\ hyb = NoHybrid
    /\ sem = NoSemantic
    /\ EmbedderAtRest
    /\ LoadAtRest
    /\ LruAtRest
    /\ rp = NoReducer
    /\ \E allow \in BOOLEAN, key \in BOOLEAN :
          ge = [NoGetEmbedder EXCEPT !.allowRemote = allow, !.hasKey = key]
    /\ strm = NoStream
    /\ ConcAtRest
    /\ chk = NoChunker

\* get_embedder(dim_hint, force_local), between two embed_texts calls
GetEmbedder(dimHint, forceLocal) ==
    LET dim == GeDim(dimHint) IN
    /\ epc = "idle"
    /\ ge.n < MaxGeOps
    /\ IF UseRemote(forceLocal)
       THEN /\ ge' = [ge EXCEPT !.remote = <<dim>>,
                                !.ret = <<[kind |-> "remote", dim |-> dim,
                                           forceLocal |-> forceLocal]>>,
                                !.n = ge.n + 1]
            /\ IF ge.remote = <<>> \/ ge.remote[1] # dim
               THEN \* OpenAIEmbedder(MODEL, dim, ...): a new _Limiter
                    /\ ecfg' = [ecfg EXCEPT !.dim = dim]
                    /\ lim' = [start |-> now, req |-> 0, tok |-> 0, cooldown |-> 0]
               ELSE UNCHANGED <<ecfg, lim>>
       ELSE /\ ge' = [ge EXCEPT !.fake = <<dim>>,
                                !.ret = <<[kind |-> "fake", dim |-> dim,
                                           forceLocal |-> forceLocal]>>,
                                !.n = ge.n + 1]
            /\ UNCHANGED <<ecfg, lim>>
    /\ UNCHANGED <<now, cacheRows, epc, ecall, hist>>
    /\ UNCHANGED <<storeVars, srch, hyb, sem, notGetEmbedder>>

\* FakeEmbedder.embed_texts(texts) on the embedder get_embedder returned
FakeEmbedTexts(texts) ==
    /\ ge.ret # <<>>
    /\ ge.ret[1].kind = "fake"
    /\ ge.n < MaxGeOps
    /\ LET dim == ge.ret[1].dim
           out == [i \in 1..Len(texts) |-> FakeVec(texts[i], dim)]
       IN ge' = [ge EXCEPT
                   !.lastFake = <<[texts |-> texts, dim |-> dim, out |-> out]>>,
                   !.seen = [key \in DOMAIN ge.seen |->
                               IF ge.seen[key] = <<>> /\ key[2] = dim
                                  /\ \E i \in 1..Len(texts) : texts[i] = key[1]
                               THEN <<FakeVec(key[1], dim)>> ELSE ge.seen[key]],
                   !.fakeCalls = ge.fakeCalls + 1,
                   !.n = ge.n + 1]
    /\ UNCHANGED <<storeVars, srch, embedVars, hyb, sem, notGetEmbedder>>

\* OpenAIEmbedder.embed_texts on the embedder get_embedder returned
RemoteHeld == ge.ret # <<>> /\ ge.ret[1].kind = "remote"

NextGetEmbedder ==
    \/ \E dimHint \in DimHints, forceLocal \in BOOLEAN : GetEmbedder(dimHint, forceLocal)
    \/ \E texts \in TextLists : FakeEmbedTexts(texts)
    \/ RemoteHeld /\ EmbedBegin(<<"ab">>, TRUE)
    \/ RemoteHeld /\ EmbedMaybeSleep
    \/ RemoteHeld /\ EmbedAttemptOk
    \/ RemoteHeld /\ EmbedAttemptShort
    \/ RemoteHeld /\ EmbedAttemptFail
    \/ RemoteHeld /\ EmbedBackoff
    \/ Tick

SpecGetEmbedder == InitGetEmbedder /\ [][NextGetEmbedder]_vars


(***************************************************************************)
(* The embedding client under the dimension settings the environment may   *)
(* give: the embedder's dimension (the store's, or the full one), the      *)
(* dimension of the provider's model, the reducer's output dimension       *)
(* REDUCE_TO_DIM (default, smaller, larger) and a reducer that cannot be   *)
(* built.  The limiter is switched off.                                    *)
(***************************************************************************)
DimCfg(dim, provDim, reduceTo, reducerOk) ==
    [LimiterCfg(0, 0, 50) EXCEPT !.dim = dim, !.provDim = provDim,
                                 !.reduceTo = reduceTo, !.reducerOk = reducerOk]
DimConfigs ==
    { DimCfg(Dim, d, ReducedDim, TRUE) : d \in ProviderDims } \cup
    { DimCfg(Dim, FullDim, ReducedDim, FALSE),
      DimCfg(Dim, FullDim, ReducedDim - 1, TRUE),
      DimCfg(Dim, FullDim, FullDim, TRUE),
      DimCfg(FullDim, FullDim, ReducedDim, TRUE),
      DimCfg(FullDim, Dim, ReducedDim, TRUE) }

InitEmbedDim ==
    /\ vecs = <<>>
    /\ meta = <<>>
    /\ diskVec = NoFile
    /\ diskMeta = NoFile
    /\ tmpVec = NoFile
    /\ tmpMeta = NoFile
    /\ pc = "idle"
    /\ call = NoCall
    /\ nextRec = 0
    /\ srch = NoSearch
    /\ hyb = NoHybrid
    /\ LibAtRest
    /\ sem = NoSemantic
    /\ \E cfg \in DimConfigs : EmbedderWith(cfg)

SpecEmbedDim == InitEmbedDim /\ [][NextEmbed]_vars

(***************************************************************************)
(* retrieval_hybrid.search_hybrid.  The two SQL queries are answered by    *)
(* the environment: a table gives each document's raw score in a channel.  *)
(* Raw scores are whole numbers of a unit (lexical ranks in units, vector  *)
(* scores in tenths); min-max normalisation does not depend on the unit.   *)
(* The columns title, space and url, copied from the rows, are left out.   *)
(***************************************************************************)
MaxK == 3            \* the largest k asked for (the routes take k >= 1)
DocIds == { "A", "B", "C" }
AlphaPcts == { 0, 50, 75 }
HybridQueries == { "ab" }

\* A raw score of a document in a channel: the channel did not return the
\* document, returned it with a NULL score, or returned it with a score.
Absent == [st |-> "absent", v |-> 0]
NullScore == [st |-> "null", v |-> 0]
Val(x) == [st |-> "val", v |-> x]

LexTables == [DocIds -> { Absent, Val(5), Val(10) }]
VecTables == [DocIds -> { Absent, NullScore, Val(2), Val(9) }]

\* ORDER BY score DESC (a NULL distance sorts last) LIMIT n: every order the
\* database may give to equal scores
SqlRank(f) == IF f.st = "val" THEN f.v ELSE 0 - 1
RECURSIVE SqlTop(_, _, _)
SqlTop(tbl, S, n) ==
    IF n = 0 \/ S = {} THEN { <<>> }
    ELSE LET best == { i \in S : \A j \in S : SqlRank(tbl[i]) >= SqlRank(tbl[j]) }
         IN UNION { { <<i>> \o t : t \in SqlTop(tbl, S \ {i}, n - 1) } : i \in best }

\* lines 36-48 and 65-77: the rows fetched, as hits
SqlHits(tbl, k) ==
    { [j \in 1..Len(o) |-> [id |-> o[j], raw |-> tbl[o[j]]]] :
        o \in SqlTop(tbl, { d \in DocIds : tbl[d].st # "absent" }, k) }

\* lines 80-82: by_id.setdefault(h["id"], {}).update(h), by_id kept in insertion order
NewEntry(id) == [id |-> id, lscore |-> Absent, vscore |-> Absent,
                 lnorm |-> ZeroFrac, vnorm |-> ZeroFrac, score |-> ZeroFrac]
SetDefault(byId, id) ==
    IF \E i \in 1..Len(byId) : byId[i].id = id THEN byId ELSE Append(byId, NewEntry(id))
IndexOf(byId, id) == CHOOSE i \in 1..Len(byId) : byId[i].id = id

RECURSIVE MergeHits(_, _, _)
MergeHits(byId, hits, channel) ==
    IF hits = <<>> THEN byId
    ELSE LET h == Head(hits)
             b == SetDefault(byId, h.id)
             i == IndexOf(b, h.id)
         IN MergeHits(IF channel = "lex" THEN [b EXCEPT ![i].lscore = h.raw]
                                         ELSE [b EXCEPT ![i].vscore = h.raw],
                      Tail(hits), channel)

\* lines 83-84: v.get("lscore", 0.0) or 0.0
OrZero(f) == IF f.st = "val" THEN f.v ELSE 0

RECURSIVE SeqMin(_)
SeqMin(xs) == IF Len(xs) = 1 THEN xs[1] ELSE Min(Head(xs), SeqMin(Tail(xs)))
RECURSIVE SeqMax(_)
SeqMax(xs) == IF Len(xs) = 1 THEN xs[1] ELSE Max(Head(xs), SeqMax(Tail(xs)))

\* _normalize
NormalizeScores(scores) ==
    IF scores = <<>> THEN <<>>
    ELSE LET lo == SeqMin(scores)
             hi == SeqMax(scores)
         IN IF hi <= lo THEN [i \in 1..Len(scores) |-> ZeroFrac]
            ELSE [i \in 1..Len(scores) |-> Frac(scores[i] - lo, hi - lo)]

\* A fusion with the two weights exchanged.
FuseScoreSwapped(alpha, lnorm, vnorm) ==
    Frac((100 - alpha) * lnorm.num * vnorm.den + alpha * vnorm.num * lnorm.den,
         100 * lnorm.den * vnorm.den)

\* line 86: ALPHA * lnorm + (1.0 - ALPHA) * vnorm, alpha in percent
FuseScore(alpha, lnorm, vnorm) ==
    Frac(alpha * lnorm.num * vnorm.den + (100 - alpha) * vnorm.num * lnorm.den,
         100 * lnorm.den * vnorm.den)

\* lines 83-86
Scored(byId, alpha) ==
    LET ls == NormalizeScores([i \in 1..Len(byId) |-> OrZero(byId[i].lscore)])
        vs == NormalizeScores([i \in 1..Len(byId) |-> OrZero(byId[i].vscore)])
    IN [i \in 1..Len(byId) |->
           [byId[i] EXCEPT !.lnorm = ls[i], !.vnorm = vs[i],
                           !.score = FuseScore(alpha, ls[i], vs[i])]]

FracGE(x, y) == x.num * y.den >= y.num * x.den
Without(es, i) == SubSeq(es, 1, i - 1) \o SubSeq(es, i + 1, Len(es))

\* A sort that puts the lowest score first.
RECURSIVE SortedAsc(_)
SortedAsc(es) ==
    IF es = <<>> THEN <<>>
    ELSE LET i == CHOOSE a \in 1..Len(es) :
                     /\ \A b \in 1..Len(es) : FracGE(es[b].score, es[a].score)
                     /\ \A b \in 1..(a - 1) : ~FracGE(es[a].score, es[b].score)
         IN <<es[i]>> \o SortedAsc(Without(es, i))

\* line 87: sorted(..., key=score, reverse=True), which keeps the order of
\* entries with equal scores
RECURSIVE SortedDesc(_)
SortedDesc(es) ==
    IF es = <<>> THEN <<>>
    ELSE LET i == CHOOSE a \in 1..Len(es) :
                     /\ \A b \in 1..Len(es) : FracGE(es[a].score, es[b].score)
                     /\ \A b \in 1..(a - 1) : ~FracGE(es[b].score, es[a].score)
         IN <<es[i]>> \o SortedDesc(Without(es, i))

\* lines 79-87: the fuse step
Fuse(lexHits, vecHits, alpha, k) ==
    LET byId == Scored(MergeHits(MergeHits(<<>>, lexHits, "lex"), vecHits, "vec"), alpha)
        ranked == SortedDesc(byId)
    IN [byId |-> byId, items |-> SubSeq(ranked, 1, Min(k, Len(ranked)))]

\* get_embedder(dim_hint=FULL_DIM): the embedder search_hybrid asks for
HybridCfg == DimCfg(FullDim, FullDim, ReducedDim, TRUE)

InitHybrid ==
    /\ vecs = <<>>
    /\ meta = <<>>
    /\ diskVec = NoFile
    /\ diskMeta = NoFile
    /\ tmpVec = NoFile
    /\ tmpMeta = NoFile
    /\ pc = "idle"
    /\ call = NoCall
    /\ nextRec = 0
    /\ srch = NoSearch
    /\ EmbedderWith(HybridCfg)
    /\ \E alpha \in AlphaPcts : hyb = [NoHybrid EXCEPT !.alpha = alpha]
    /\ sem = NoSemantic
    /\ LibAtRest

\* lines 28-48: the lexical query
HybridLex(q, k, lexTbl) ==
    /\ hyb.pc = "idle"
    /\ \E hits \in SqlHits(lexTbl, k) :
          hyb' = [hyb EXCEPT !.pc = "embed", !.q = q, !.k = k, !.lexHits = hits]
    /\ UNCHANGED storeVars
    /\ UNCHANGED embedVars
    /\ UNCHANGED <<srch, sem, libVars>>

\* line 54: emb.embed_texts([q])
HybridEmbed(cacheOn) ==
    /\ hyb.pc = "embed"
    /\ ecall.status = "none"
    /\ EmbedBegin(<<hyb.q>>, cacheOn)

\* lines 55-57 and 79-91: the embedding raised; the exception is logged, no
\* vector query is made and the lexical hits alone are fused
HybridNoVector ==
    /\ hyb.pc = "embed"
    /\ epc = "idle"
    /\ ecall.status = "raised"
    /\ LET r == Fuse(hyb.lexHits, <<>>, hyb.alpha, hyb.k)
       IN hyb' = [hyb EXCEPT !.pc = "done", !.byId = r.byId, !.items = r.items]
    /\ UNCHANGED storeVars
    /\ UNCHANGED embedVars
    /\ UNCHANGED <<srch, sem, libVars>>

\* lines 59-91: reduce the query vector, the vector query, the fuse step
HybridAnn(vecTbl) ==
    /\ hyb.pc = "embed"
    /\ epc = "idle"
    /\ ecall.status = "ok"
    /\ IF ~ecfg.reducerOk \/ ReduceRaises(ecall.result[1])
       THEN hyb' = [hyb EXCEPT !.pc = "done", !.raised = TRUE]
       ELSE \E hits \in SqlHits(vecTbl, hyb.k) :
               LET r == Fuse(hyb.lexHits, hits, hyb.alpha, hyb.k)
               IN hyb' = [hyb EXCEPT !.pc = "done", !.vecHits = hits,
                                     !.byId = r.byId, !.items = r.items]
    /\ UNCHANGED storeVars
    /\ UNCHANGED embedVars
    /\ UNCHANGED <<srch, sem, libVars>>

NextHybrid ==
    \/ \E q \in HybridQueries, k \in 1..MaxK, lexTbl \in LexTables : HybridLex(q, k, lexTbl)
    \/ \E cacheOn \in BOOLEAN : HybridEmbed(cacheOn)
    \/ EmbedMaybeSleep
    \/ EmbedAttemptOk
    \/ EmbedAttemptShort
    \/ EmbedAttemptFail
    \/ EmbedBackoff
    \/ \E vecTbl \in VecTables : HybridAnn(vecTbl)
    \/ HybridNoVector

SpecHybrid == InitHybrid /\ [][NextHybrid]_vars

(***************************************************************************)
(* routers/semantic.semantic_search.  An item is the hit's id, space and   *)
(* score; title, snippet and url are not part of the modelled metadata.    *)
(***************************************************************************)
SemanticCfg == DimCfg(Dim, Dim, ReducedDim, TRUE)

\* score_threshold: None, 0, sqrt(1/2) and 1
Thresholds == { <<>>, <<ZeroScore>>, <<MkScore(1, 2)>>, <<MkScore(1, 1)>> }

\* The stores the route is run on: those of at most two rows.
SemanticIdLists == { ids \in SearchIdLists : Len(SearchBatch) - Cardinality(ids) <= 2 }

InitSemantic ==
    /\ \E ids \in SemanticIdLists :
          LET r == Collect(SearchBatch, 1)
              keep == Keep(r.meta, ids)
          IN /\ diskVec = File(Take(r.vecs, keep))
             /\ diskMeta = File(Take(r.meta, keep))
    /\ vecs = <<>>
    /\ meta = <<>>
    /\ tmpVec = NoFile
    /\ tmpMeta = NoFile
    /\ pc = "idle"
    /\ call = NoCall
    /\ nextRec = Len(SearchBatch)
    /\ srch = NoSearch
    /\ EmbedderWith(SemanticCfg)
    /\ hyb = NoHybrid
    /\ LibAtRest
    /\ \E allow \in BOOLEAN : sem = [NoSemantic EXCEPT !.allow = allow]

\* lines 37-40: NumpyStore(cfg) loads the files (of equal length: nothing to
\* heal), get_embedder(dim_hint=store.effective_dim())
SemanticBegin(q, k, thr) ==
    /\ sem.pc = "idle"
    /\ pc = "idle"
    /\ epc = "idle"
    /\ Len(diskVec.rows) = Len(diskMeta.rows)
    /\ vecs' = diskVec.rows
    /\ meta' = diskMeta.rows
    /\ sem' = [sem EXCEPT !.pc = "embed", !.q = q, !.k = k, !.thr = thr]
    /\ UNCHANGED <<diskVec, diskMeta, tmpVec, tmpMeta, pc, call, nextRec>>
    /\ UNCHANGED embedVars
    /\ UNCHANGED <<srch, hyb, libVars>>

\* line 42: emb.embed_texts([req.q])
SemanticEmbed(cacheOn) ==
    /\ sem.pc = "embed"
    /\ ecall.status = "none"
    /\ EmbedBegin(<<sem.q>>, cacheOn)

\* A handler that answers every embedding failure with an empty list.
OnEmbedErrorEmpty(allow) == [status |-> "ok", items |-> <<>>]

\* lines 43-46: the response to a failed embedding
OnEmbedError(allow) ==
    IF allow THEN [status |-> "ok", items |-> <<>>]
    ELSE [status |-> "error", items |-> <<>>]

SemanticEmbedFailed ==
    /\ sem.pc = "embed"
    /\ epc = "idle"
    /\ ecall.status = "raised"
    /\ LET r == OnEmbedError(sem.allow)
       IN sem' = [sem EXCEPT !.pc = "done", !.status = r.status, !.items = r.items]
    /\ UNCHANGED storeVars
    /\ UNCHANGED embedVars
    /\ UNCHANGED <<srch, hyb, libVars>>

\* lines 47-64: store.search(qv, k, None), the score threshold, the items
SemanticHits ==
    /\ sem.pc = "embed"
    /\ epc = "idle"
    /\ ecall.status = "ok"
    /\ LET qv == ecall.result[1]
           scores == DotOnUnitRows(qv, vecs)
       IN \E idx \in TopOrders(scores, 1..Len(vecs), Min(TakeOf(sem.k), Len(vecs))) :
             LET hits == Scan(idx, <<>>, sem.k, {}, {}, meta, scores)
                 kept == IF sem.thr = <<>> THEN hits
                         ELSE SelectSeq(hits, LAMBDA h : ScoreGE(h.score, sem.thr[1]))
             IN sem' = [sem EXCEPT !.pc = "done", !.status = "ok",
                                   !.items = [j \in 1..Len(kept) |->
                                                 [id |-> kept[j].m.id, space |-> kept[j].m.space,
                                                  score |-> kept[j].score]]]
    /\ UNCHANGED storeVars
    /\ UNCHANGED embedVars
    /\ UNCHANGED <<srch, hyb, libVars>>

NextSemantic ==
    \/ \E q \in Texts, k \in 1..MaxK, thr \in Thresholds : SemanticBegin(q, k, thr)
    \/ \E cacheOn \in BOOLEAN : SemanticEmbed(cacheOn)
    \/ EmbedMaybeSleep
    \/ EmbedAttemptOk
    \/ EmbedAttemptShort
    \/ EmbedAttemptFail
    \/ EmbedBackoff
    \/ SemanticHits
    \/ SemanticEmbedFailed

SpecSemantic == InitSemantic /\ [][NextSemantic]_vars

(***************************************************************************)
(* routers/semantic.py: POST /v1/stream/answer                             *)
(***************************************************************************)
ForceAbstainDefault == TRUE     \* FORCE_ABSTAIN_DEFAULT
MaxCitations == 5               \* line 123: hits[: min(5, len(hits))]

InitStream ==
    /\ \E ids \in SemanticIdLists :
          LET r == Collect(SearchBatch, 1)
              keep == Keep(r.meta, ids)
          IN /\ diskVec = File(Take(r.vecs, keep))
             /\ diskMeta = File(Take(r.meta, keep))
    /\ vecs = <<>>
    /\ meta = <<>>
    /\ tmpVec = NoFile
    /\ tmpMeta = NoFile
    /\ pc = "idle"
    /\ call = NoCall
    /\ nextRec = Len(SearchBatch)
    /\ srch = NoSearch
    /\ EmbedderWith(SemanticCfg)
    /\ hyb = NoHybrid
    /\ sem = NoSemantic
    /\ LibAtRest

\* lines 110-113: NumpyStore(cfg) loads the files, get_embedder(dim_hint=dim)
StreamBegin(q, k, force) ==
    /\ strm.pc = "idle"
    /\ pc = "idle"
    /\ epc = "idle"
    /\ Len(diskVec.rows) = Len(diskMeta.rows)
    /\ vecs' = diskVec.rows
    /\ meta' = diskMeta.rows
    /\ strm' = [strm EXCEPT !.pc = "embed", !.q = q, !.k = k, !.force = force]
    /\ UNCHANGED <<diskVec, diskMeta, tmpVec, tmpMeta, pc, call, nextRec>>
    /\ UNCHANGED embedVars
    /\ UNCHANGED <<srch, hyb, sem, notStream>>

\* line 114: emb.embed_texts([req.question])
StreamEmbed(cacheOn) ==
    /\ strm.pc = "embed"
    /\ ecall.status = "none"
    /\ EmbedBegin(<<strm.q>>, cacheOn)

\* line 114 raises: no handler, the request fails
StreamEmbedFailed ==
    /\ strm.pc = "embed"
    /\ epc = "idle"
    /\ ecall.status = "raised"
    /\ strm' = [strm EXCEPT !.pc = "done", !.status = "error"]
    /\ UNCHANGED storeVars
    /\ UNCHANGED embedVars
    /\ UNCHANGED <<srch, hyb, sem, notStream>>

\* gen_empty, lines 118-119
GenEmpty == << [type |-> "final", answer |-> "INSUFFICIENT CONTEXT", index |-> 0, id |-> ""] >>
\* gen, lines 121-139
Gen(hits) ==
    LET n == Min(MaxCitations, Len(hits))
    IN << [type |-> "preamble", answer |-> "", index |-> 0, id |-> ""] >>
       \o [i \in 1..n |-> [type |-> "citation", answer |-> "", index |-> i, id |-> hits[i].m.id]]
       \o << [type |-> "final", answer |-> "Answer built from retrieved evidence. See citations.",
              index |-> 0, id |-> ""] >>

\* lines 116-140: which generator the response streams
StreamEvents(hits, force) ==
    IF hits = <<>> /\ (force \/ ForceAbstainDefault) THEN GenEmpty ELSE Gen(hits)

\* lines 115-140: store.search(qv, k, None) and the streamed response
StreamRespond ==
    /\ strm.pc = "embed"
    /\ epc = "idle"
    /\ ecall.status = "ok"
    /\ LET qv == ecall.result[1]
           scores == DotOnUnitRows(qv, vecs)
       IN \E idx \in TopOrders(scores, 1..Len(vecs), Min(TakeOf(strm.k), Len(vecs))) :
             LET hits == Scan(idx, <<>>, strm.k, {}, {}, meta, scores)
             IN strm' = [strm EXCEPT !.pc = "done", !.status = "stream",
                                     !.events = StreamEvents(hits, strm.force)]
    /\ UNCHANGED storeVars
    /\ UNCHANGED embedVars
    /\ UNCHANGED <<srch, hyb, sem, notStream>>

NextStream ==
    \/ \E q \in Texts, k \in 1..MaxK, force \in BOOLEAN : StreamBegin(q, k, force)
    \/ \E cacheOn \in BOOLEAN : StreamEmbed(cacheOn)
    \/ EmbedMaybeSleep
    \/ EmbedAttemptOk
    \/ EmbedAttemptShort
    \/ EmbedAttemptFail
    \/ EmbedBackoff
    \/ StreamRespond
    \/ StreamEmbedFailed

SpecStream == InitStream /\ [][NextStream]_vars

(***************************************************************************)
(* Properties of the vector store (checked under Spec).                    *)
(***************************************************************************)
RowsOf(f) == IF f.exists THEN f.rows ELSE <<>>
Returned(op) == pc = "idle" /\ call.op = op
IdsOf(ms) == { ms[i].id : i \in 1..Len(ms) }

\* A record whose embedding is a 1-D vector of exactly Dim components.
ValidEmb(emb) == emb.isList /\ Len(emb.shape) = 1 /\ emb.shape[1] = Dim
ValidOf(batch) == SelectSeq(batch, LAMBDA ch : ValidEmb(ch.emb))
HasBad(batch) == \E i \in 1..Len(batch) : ~ValidEmb(batch[i].emb)

\* C1: in every state a caller can observe (also after a crash inside a save
\* and the load that follows it) the store holds as many vector rows as metadata
\* records; a load that finds files of different lengths leaves both, in memory
\* and on disk, truncated to the shorter length.
C1_LengthsAgreeAfterHeal ==
    /\ Len(vecs) = Len(meta)
    /\ Returned("load") =>
          LET n == Min(Len(call.preVecs), Len(call.preMeta)) IN
          /\ vecs = SubSeq(call.preVecs, 1, n)
          /\ meta = SubSeq(call.preMeta, 1, n)
          /\ Len(call.preVecs) # Len(call.preMeta) =>
                /\ diskVec = File(vecs)
                /\ diskMeta = File(meta)

\* C1 witness: a load has healed files of different, non-zero lengths.
C1_Witness ==
    /\ Returned("load")
    /\ Len(call.preVecs) # Len(call.preMeta)
    /\ Len(vecs) > 0

\* C2: in every observable store state row i of the vector array is the embedding
\* that was upserted together with metadata record i.
C2_RowsAligned ==
    pc = "idle" =>
        \A i \in 1..Len(meta) : i <= Len(vecs) /\ vecs[i].rec = meta[i].rec

\* C3: after an upsert call the row count is the count before plus the number of
\* valid records of the batch, and the call returned that number.
C3_UpsertCountsValid ==
    Returned("upsert") =>
        /\ ~call.raised
        /\ Len(vecs) = Len(call.preVecs) + Len(ValidOf(call.batch))
        /\ call.ret = Len(ValidOf(call.batch))

\* C4: an upsert whose batch holds a bad record returns normally and has
\* inserted every valid record of the batch, in batch order.
C4_BadRecordSkipped ==
    (Returned("upsert") /\ HasBad(call.batch)) =>
        /\ ~call.raised
        /\ LET new == SubSeq(meta, Len(call.preMeta) + 1, Len(meta))
               ok  == ValidOf(call.batch)
           IN /\ Len(new) = Len(ok)
              /\ \A i \in 1..Len(new) : new[i].id = ok[i].id

\* C5: delete_by_ids with ids none of which occurs in the store returns 0 and
\* leaves the rows in memory and the rows on disk as they were, at every step of
\* the call.
C5_DeleteAbsentIsNoOp ==
    (call.op = "delete" /\ call.ids \cap IdsOf(call.preMeta) = {}) =>
        /\ vecs = call.preVecs
        /\ meta = call.preMeta
        /\ RowsOf(diskVec) = RowsOf(call.preDiskVec)
        /\ RowsOf(diskMeta) = RowsOf(call.preDiskMeta)
        /\ pc = "idle" => call.ret = 0

\* C5 witness: a delete of an absent id on a non-empty store has returned
\* after saving.
C5_Witness ==
    /\ Returned("delete")
    /\ call.ids # {}
    /\ call.ids \cap IdsOf(call.preMeta) = {}
    /\ Len(meta) > 0
    /\ diskMeta = File(meta)

\* Number of rows before row i whose id is in ids.
RemovedBefore(ms, ids, i) == Cardinality({ j \in 1..(i - 1) : ms[j].id \in ids })

\* C6: delete_by_ids removes exactly the rows whose id is listed (duplicates
\* included), each other row keeps its vector and its metadata and moves up by
\* the number of removed rows before it, and the call returns the number removed.
C6_DeleteRemovesExactlyListed ==
    Returned("delete") =>
        LET pm == call.preMeta
            pv == call.preVecs
            gone == { i \in 1..Len(pm) : pm[i].id \in call.ids }
        IN /\ call.ret = Cardinality(gone)
           /\ Len(meta) = Len(pm) - Cardinality(gone)
           /\ Len(vecs) = Len(meta)
           /\ \A i \in (1..Len(pm)) \ gone :
                 LET j == i - RemovedBefore(pm, call.ids, i)
                 IN meta[j] = pm[i] /\ vecs[j] = pv[i]

\* C6 witness: a delete removed two rows with the same id and kept a row that
\* stood between them.
C6_Witness ==
    /\ Returned("delete")
    /\ call.ret = 2
    /\ Len(meta) = 1
    /\ \E i \in 2..(Len(call.preMeta) - 1) : call.preMeta[i] = meta[1]

\* C7: upsert leaves every existing row (vector, metadata, position) as it was
\* and appends one row per accepted record, also when a record's id is already
\* in the store.
C7_UpsertAppendOnly ==
    (call.op = "upsert" /\ pc # "crashed") =>
        /\ Len(vecs) >= Len(call.preVecs)
        /\ SubSeq(vecs, 1, Len(call.preVecs)) = call.preVecs
        /\ SubSeq(meta, 1, Len(call.preMeta)) = call.preMeta
        /\ ~call.raised => Len(meta) = Len(call.preMeta) + call.ret
        /\ (pc = "idle" /\ ~call.raised) =>
              \A i \in 1..Len(call.batch) :
                  ValidEmb(call.batch[i].emb) =>
                      \E j \in (Len(call.preMeta) + 1)..Len(meta) :
                          meta[j].id = call.batch[i].id

\* C7 witness: an upsert of an id the store already held has returned, and both
\* rows are in the store.
C7_Witness ==
    /\ Returned("upsert")
    /\ \E i \in 1..Len(call.preMeta) :
          \E j \in (Len(call.preMeta) + 1)..Len(meta) :
              /\ meta[i].id = meta[j].id
              /\ vecs[i] # vecs[j]

(***************************************************************************)
(* Properties of search (checked under SpecSearch).                        *)
(***************************************************************************)
SeqRange(f) == { f[i] : i \in 1..Len(f) }
FilterOk(m, spaces, types) ==
    (spaces = {} \/ m.space \in spaces) /\ (types = {} \/ m.type \in types)

\* C8: search returns the first k rows that pass the given filters among the 5k
\* highest-scoring rows in non-increasing score order (fewer when fewer pass,
\* none when k <= 0); every hit passes every given filter and carries its own
\* score, and the returned scores are non-increasing.
C8_SearchTopKOfFiveK ==
    srch.done =>
        LET scores == DotOnUnitRows(srch.q, vecs)
            n == Len(vecs)
            take == IF srch.k > 0 THEN 5 * srch.k ELSE 0
            ord == srch.order
            pass == SelectSeq(ord, LAMBDA i : FilterOk(meta[i], srch.spaces, srch.types))
            want == IF srch.k <= 0 THEN 0 ELSE Min(srch.k, Len(pass))
        IN /\ Len(ord) = Min(take, n)
           /\ \A a, b \in 1..Len(ord) :
                 a < b => /\ ord[a] # ord[b]
                          /\ ScoreGE(scores[ord[a]], scores[ord[b]])
           /\ \A i \in (1..n) \ SeqRange(ord) :
                 \A a \in 1..Len(ord) : ScoreGE(scores[ord[a]], scores[i])
           /\ Len(srch.hits) = want
           /\ \A j \in 1..Len(srch.hits) :
                 /\ srch.hits[j].m = meta[pass[j]]
                 /\ srch.hits[j].score = scores[pass[j]]
                 /\ FilterOk(srch.hits[j].m, srch.spaces, srch.types)
                 /\ j > 1 => ScoreGE(srch.hits[j - 1].score, srch.hits[j].score)

\* C8 witness: a search with k = 1 and both filters given returned nothing,
\* because the five best rows fail the filters, although a sixth row passes them.
C8_Witness ==
    /\ srch.done
    /\ srch.k = 1
    /\ srch.spaces # {} /\ srch.types # {}
    /\ Len(srch.order) = 5
    /\ srch.hits = <<>>
    /\ \E i \in 1..Len(meta) : FilterOk(meta[i], srch.spaces, srch.types)

\* C8 second case: a search with k = 2 skipped a better row that fails the
\* filters and returned two hits with different scores.
C8_WitnessSkip ==
    /\ srch.done
    /\ srch.k = 2
    /\ Len(srch.hits) = 2
    /\ srch.hits[1].score # srch.hits[2].score
    /\ ~FilterOk(meta[srch.order[1]], srch.spaces, srch.types)

(***************************************************************************)
(* Properties of the embedding client (checked under SpecEmbed).           *)
(***************************************************************************)
\* C9: an embed_texts call that succeeds on the texts of the previous successful
\* call, the cache being available in both, makes no provider call and returns
\* the vectors the previous call returned.
C9_SecondCallHitsCache ==
    ( /\ epc = "idle"
      /\ ecall.status = "ok"
      /\ ecall.cacheOn
      /\ ecall.prev.ok
      /\ ecall.prev.cacheOn
      /\ ecall.prev.texts = ecall.texts )
    => /\ ecall.calls = 0
       /\ ecall.result = ecall.prev.result

\* C10 as stated, for the RPM budget B and the headroom H as configured: a call
\* begun after ceil(B*H)+1 requests were accounted in one window issues no
\* provider call before the end of that window.
C10_NextCallWaitsConfigured ==
    ecall.issuedAt >= 0 => ecall.issuedAt >= ecall.preMarkRaw

\* C10 amended, for B > 0 and H as the limiter keeps them (H clamped to
\* [0.1, 1.0]): a call begun after ceil(B*H)+1 requests were accounted in one
\* window issues no provider call before the end of that window.
C10_NextCallWaits ==
    ecall.issuedAt >= 0 => ecall.issuedAt >= ecall.preMarkEff

\* C10 witness: with B > 0, a call begun after the count was reached in a window
\* has issued its provider call.
C10_Witness ==
    /\ Rpm > 0
    /\ ecall.preMarkEff > 0
    /\ ecall.issuedAt >= ecall.preMarkEff
    /\ ecall.calls >= 1

RECURSIVE Pow2(_)
Pow2(n) == IF n <= 0 THEN 1 ELSE 2 * Pow2(n - 1)

\* C11: embed_texts posts to the provider at most MaxRetries times; the i-th
\* retry comes after a sleep of min(BackoffMin * 2^(i-1), BackoffMax); after
\* MaxRetries failed attempts the call has raised; a call that raised returns no
\* vectors, and a call that returned vectors for queried texts ended with a
\* provider call that succeeded for all of them.
C11_RetriesBoundedThenRaise ==
    /\ ecall.calls <= MaxRetries
    /\ ecall.fails <= ecall.calls
    /\ \A i \in 1..Len(ecall.waits) :
          ecall.waits[i] = Min(BackoffMin * Pow2(i - 1), BackoffMax)
    /\ epc = "attempt" => Len(ecall.waits) = ecall.calls
    /\ epc \in {"backoff", "idle"} /\ ecall.calls > 0 => Len(ecall.waits) = ecall.calls - 1
    /\ (epc = "idle" /\ ecall.fails = MaxRetries) => ecall.status = "raised"
    /\ ecall.status = "raised" => ecall.result = <<>>
    /\ (ecall.status = "ok" /\ ecall.toQuery # <<>>) =>
          /\ ecall.fails = ecall.calls - 1
          /\ \A j \in 1..Len(ecall.toQuery) :
                ecall.result[ecall.toQuery[j]] =
                    EnforceDim(ProviderVec(ecall.texts[ecall.toQuery[j]], ecfg.provDim))

\* C11 witness: a call has raised after MaxRetries failed attempts, having slept
\* at least twice between them, the first sleep below the cap and the last one
\* cut to the cap.
C11_Witness ==
    /\ epc = "idle"
    /\ ecall.status = "raised"
    /\ ecall.fails = MaxRetries
    /\ Len(ecall.waits) >= 2
    /\ ecall.waits[1] = BackoffMin
    /\ ecall.waits[1] < BackoffMax
    /\ ecall.waits[Len(ecall.waits)] = BackoffMax
    /\ BackoffMin * Pow2(Len(ecall.waits) - 1) > BackoffMax

\* C12: every vector a successful embed_texts call returns has exactly the
\* embedder's dimension.
C12_ReturnsTargetDim ==
    (epc = "idle" /\ ecall.status = "ok") =>
        \A i \in 1..Len(ecall.result) : Len(ecall.result[i]) = ecfg.dim

\* C13: a successful embed_texts call returns one vector per input text; the
\* batch posted to the provider holds exactly the texts whose cache lookup
\* missed, in their input order (no post when none missed); the vector at index
\* i is the provider's vector for texts[i], reconciled to the embedder's
\* dimension, when text i missed and the looked-up vector when it hit.
C13_OneVectorPerTextInPlace ==
    (epc = "idle" /\ ecall.status = "ok") =>
        LET miss == { i \in 1..Len(ecall.texts) : ecall.lookup[i] = <<>> }
            ix == SortedIdx(miss)
        IN /\ Len(ecall.result) = Len(ecall.texts)
           /\ ecall.sent = [j \in 1..Len(ix) |-> ecall.texts[ix[j]]]
           /\ (ecall.calls = 0) <=> (miss = {})
           /\ \A i \in 1..Len(ecall.texts) :
                 ecall.result[i] =
                    IF i \in miss
                    THEN EnforceDim(ProviderVec(ecall.texts[i], ecfg.provDim))
                    ELSE ecall.lookup[i]

\* C13 witness: a call for two different texts, both posted in input order and
\* answered after a retry, has returned two different vectors, each at the
\* index of its text.
C13_Witness ==
    /\ epc = "idle"
    /\ ecall.status = "ok"
    /\ Len(ecall.texts) = 2
    /\ ecall.texts[1] # ecall.texts[2]
    /\ ecall.sent = ecall.texts
    /\ ecall.calls >= 2
    /\ ecall.result[1] # ecall.result[2]
    /\ ecall.result[2] = EnforceDim(ProviderVec(ecall.texts[2], ecfg.provDim))

(***************************************************************************)
(* Properties of hybrid retrieval (checked under SpecHybrid).              *)
(***************************************************************************)
HybridReturned == hyb.pc = "done" /\ ~hyb.raised
HitIds(hits) == { hits[i].id : i \in 1..Len(hits) }
RawOf(hits, id) == hits[CHOOSE i \in 1..Len(hits) : hits[i].id = id].raw
EntryOf(id) == hyb.byId[IndexOf(hyb.byId, id)]
FracGT(x, y) == x.num * y.den > y.num * x.den

\* C14: with lexical hits A (10) and B (5), vector hits B (0.2) and C (0.9) and
\* alpha = 0.5, the fused score of B is higher than that of A and that of C.
C14_BothChannelsRankFirst ==
    ( /\ HybridReturned
      /\ hyb.alpha = 50
      /\ hyb.lexHits = << [id |-> "A", raw |-> Val(10)], [id |-> "B", raw |-> Val(5)] >>
      /\ hyb.vecHits = << [id |-> "C", raw |-> Val(9)], [id |-> "B", raw |-> Val(2)] >> )
    => /\ FracGT(EntryOf("B").score, EntryOf("A").score)
       /\ FracGT(EntryOf("B").score, EntryOf("C").score)

\* C15: the fused score of every merged id is alpha * lnorm + (1 - alpha) * vnorm,
\* where lnorm (vnorm) is the id's normalised lexical (vector) score when that
\* channel returned the id and 0 when it did not.
C15_FusedScoreFormula ==
    HybridReturned =>
        \A i \in 1..Len(hyb.byId) :
            LET e == hyb.byId[i]
                ln == IF e.id \in HitIds(hyb.lexHits) THEN e.lnorm ELSE ZeroFrac
                vn == IF e.id \in HitIds(hyb.vecHits) THEN e.vnorm ELSE ZeroFrac
            IN /\ e.score.num * (100 * ln.den * vn.den) =
                     e.score.den * (hyb.alpha * ln.num * vn.den
                                     + (100 - hyb.alpha) * vn.num * ln.den)
               /\ \A j \in 1..Len(hyb.items) :
                     hyb.items[j].id = e.id => hyb.items[j].score = e.score

\* C15 witness: with alpha = 0.75 an id returned by the vector channel alone
\* and an id returned by the lexical channel alone both have non-zero fused
\* scores, and these differ.
C15_Witness ==
    /\ HybridReturned
    /\ hyb.alpha = 75
    /\ \E i, j \in 1..Len(hyb.items) :
          /\ hyb.items[i].id \notin HitIds(hyb.lexHits)
          /\ hyb.items[j].id \notin HitIds(hyb.vecHits)
          /\ hyb.items[i].score # ZeroFrac
          /\ hyb.items[j].score # ZeroFrac
          /\ hyb.items[i].score # hyb.items[j].score

\* The min-max normalisation of one channel's own hits.
OwnNorm(hits, id) ==
    LET raws == [i \in 1..Len(hits) |-> OrZero(hits[i].raw)]
        lo == SeqMin(raws)
        hi == SeqMax(raws)
    IN IF hi <= lo THEN ZeroFrac ELSE Frac(OrZero(RawOf(hits, id)) - lo, hi - lo)

\* C16: the normalised score of an id in a channel is the min-max normalisation
\* over the scores of the hits that channel returned, 0 when the channel
\* returned one hit or equal scores only.
C16_NormalizedOverOwnChannel ==
    HybridReturned =>
        \A i \in 1..Len(hyb.byId) :
            LET e == hyb.byId[i] IN
            /\ e.id \in HitIds(hyb.lexHits) => e.lnorm = OwnNorm(hyb.lexHits, e.id)
            /\ e.id \in HitIds(hyb.vecHits) => e.vnorm = OwnNorm(hyb.vecHits, e.id)

\* C17: search_hybrid returns min(k, number of merged ids) items, no id twice,
\* in non-increasing order of fused score, no merged id left out scores higher
\* than a returned one, and each item carries the raw score of every channel
\* that returned its id (and none for a channel that did not).
C17_TopKByFusedScore ==
    HybridReturned =>
        LET its == hyb.items
            merged == HitIds(hyb.lexHits) \cup HitIds(hyb.vecHits)
        IN /\ Len(its) <= hyb.k
           /\ Len(its) = Min(hyb.k, Cardinality(merged))
           /\ \A a, b \in 1..Len(its) : a < b =>
                 /\ its[a].id # its[b].id
                 /\ FracGE(its[a].score, its[b].score)
           /\ \A a \in 1..Len(its) :
                 /\ its[a].id \in merged
                 /\ its[a].score = EntryOf(its[a].id).score
                 /\ its[a].lscore = IF its[a].id \in HitIds(hyb.lexHits)
                                    THEN RawOf(hyb.lexHits, its[a].id) ELSE Absent
                 /\ its[a].vscore = IF its[a].id \in HitIds(hyb.vecHits)
                                    THEN RawOf(hyb.vecHits, its[a].id) ELSE Absent
           /\ \A id \in merged :
                 (\A a \in 1..Len(its) : its[a].id # id) =>
                     \A a \in 1..Len(its) : FracGE(its[a].score, EntryOf(id).score)

\* C17 witness: with k = 2 and three merged ids, one of them returned by both
\* channels, the two items have different scores and the id left out scores
\* lower than both.
C17_Witness ==
    /\ HybridReturned
    /\ hyb.k = 2
    /\ Len(hyb.byId) = 3
    /\ Len(hyb.items) = 2
    /\ hyb.items[1].score # hyb.items[2].score
    /\ \E a \in 1..2 : hyb.items[a].lscore.st = "val" /\ hyb.items[a].vscore.st = "val"
    /\ \A i \in 1..3 :
          (\A a \in 1..2 : hyb.items[a].id # hyb.byId[i].id) =>
              FracGT(hyb.items[2].score, hyb.byId[i].score)

\* C20: a search_hybrid call whose query embedding failed does not return a
\* result; it raises.
C20_HybridReportsEmbedFailure ==
    (hyb.pc = "done" /\ ecall.status = "raised") => hyb.raised

(***************************************************************************)
(* The store when a step of a save fails (checked under SpecIO).           *)
(***************************************************************************)
\* C18: after an upsert or delete_by_ids whose save failed, the rows of the
\* instance and the two files are those from before the call, and there are as
\* many vector rows as metadata rows in memory and on disk.
C18_FailedSaveLeavesLastGood ==
    (pc = "idle" /\ call.op \in {"upsert", "delete"} /\ call.ioError) =>
        /\ call.raised
        /\ vecs = call.preVecs
        /\ meta = call.preMeta
        /\ diskVec = call.preDiskVec
        /\ diskMeta = call.preDiskMeta
        /\ Len(vecs) = Len(meta)
        /\ Len(RowsOf(diskVec)) = Len(RowsOf(diskMeta))

(***************************************************************************)
(* Properties of the semantic route (checked under SpecSemantic).          *)
(***************************************************************************)
\* C19: when embedding the query raised, semantic_search answers with an error
\* and no items if ALLOW_QUERY_FALLBACK is unset, and with an empty item list if
\* it is set; a response with items is built from a query vector only.
C19_EmbedFailureReported ==
    sem.pc = "done" =>
        /\ (ecall.status = "raised" /\ ~sem.allow) =>
              sem.status = "error" /\ sem.items = <<>>
        /\ (ecall.status = "raised" /\ sem.allow) =>
              sem.status = "ok" /\ sem.items = <<>>
        /\ sem.status = "error" => ecall.status = "raised"
        /\ sem.items # <<>> => ecall.status = "ok"

\* C19 witness: with the flag unset, a request on a non-empty store whose
\* query embedding raised after all retries was answered with an error.
C19_Witness ==
    /\ sem.pc = "done"
    /\ ~sem.allow
    /\ ecall.status = "raised"
    /\ ecall.fails = MaxRetries
    /\ Len(meta) > 0
    /\ sem.status = "error"

(***************************************************************************)
(* Loading a damaged metadata file (checked under SpecLoad).               *)
(***************************************************************************)
\* C21: _load of a metadata file with unparseable lines (malformed JSON or
\* malformed encoding) does not raise, and the records it reads are those of
\* the parseable lines, all of them, in file order.
C21_DamagedLinesSkipped ==
    ld.read =>
        LET good == SelectSeq(ld.lines, LAMBDA ln : ln.kind = "json")
        IN /\ ~call.raised
           /\ call.preMeta = [i \in 1..Len(good) |-> good[i].m[1]]

(***************************************************************************)
(* The hot LRU under threads (checked under SpecLru).                      *)
(***************************************************************************)
\* The last position of key k in the history of refreshed keys.
LastUse(used, k) ==
    IF \E i \in 1..Len(used) : used[i] = k
    THEN CHOOSE i \in 1..Len(used) : used[i] = k /\ \A j \in (i + 1)..Len(used) : used[j] # k
    ELSE 0

KeysIn(m) == { m[i].k : i \in 1..Len(m) }

\* C22: the LRU never holds more entries than its capacity (none when the
\* capacity is 0) and no key twice; a call removes an entry only when it is a
\* put of a new key into a full LRU, and then it removes exactly the entry whose
\* last get hit or put is the oldest; a put into an LRU of capacity above 0
\* leaves its key stored.
C22_LruBoundedEvictsOldest ==
    /\ Len(lru.m) <= lru.cap
    /\ \A i, j \in 1..Len(lru.m) : lru.m[i].k = lru.m[j].k => i = j
    /\ lru.last # <<>> =>
          LET e == lru.last[1]
              gone == KeysIn(e.before) \ KeysIn(lru.m)
          IN /\ (e.op = "put" /\ lru.cap > 0) => e.k \in KeysIn(lru.m)
             /\ gone # {} =>
                   /\ e.op = "put"
                   /\ e.k \notin KeysIn(e.before)
                   /\ Len(e.before) = lru.cap
                   /\ Cardinality(gone) = 1
                   /\ \A g \in gone : \A k \in KeysIn(e.before) :
                         LastUse(e.used, g) <= LastUse(e.used, k)

\* C22 witness: with capacity 2, a put of a third key evicted the key that was
\* inserted second: the key inserted first had been refreshed after it.
C22_Witness ==
    /\ lru.cap = 2
    /\ lru.last # <<>>
    /\ \A t \in LruThreads : lru.thr[t].pc = "idle"
    /\ LET e == lru.last[1]
       IN /\ e.op = "put"
          /\ Len(e.before) = 2
          /\ e.before[1].k \notin KeysIn(lru.m)
          /\ e.before[2].k \in KeysIn(lru.m)
          /\ \E i, j \in 1..Len(e.used) :
                /\ i < j
                /\ e.used[i] = e.before[2].k
                /\ e.used[j] = e.before[1].k
                /\ \A n \in 1..(j - 1) : e.used[n] # e.before[1].k

(***************************************************************************)
(* The embedding cache (checked under SpecCache).                          *)
(***************************************************************************)
\* C23: a vector that get_many returns for a requested (hash, model) key is the
\* vector most recently put under that hash and that model.
C23_HitIsLastPutOfKey ==
    cch.got # <<>> =>
        LET g == cch.got[1]
        IN \A i \in 1..Len(g.keys) :
              g.keys[i][1] \in DOMAIN g.hits =>
                  g.hits[g.keys[i][1]] = cch.lastPut[g.keys[i]]

\* C24: reduce returns a vector of the target length out_dim unchanged, and
\* for an input of length in_dim the output is the one fixed by the seed: the
\* product of the matrix of that (in_dim, out_dim, seed) with the input,
\* whichever Reducer instance of that seed computed it.
C24_ReduceNoOpAndDeterministic ==
    \A c \in Range(rp.last) :
        /\ Len(c.vec) = c.t[2] => ~c.raised /\ c.out = c.vec
        /\ Len(c.vec) = c.t[1] /\ Len(c.vec) # c.t[2] =>
               /\ ~c.raised
               /\ c.out = ReducerReduce([in_dim |-> c.t[1], out_dim |-> c.t[2],
                                         R |-> rp.first[c.t][1]], c.vec).out

\* C25: every Reducer built for one (in_dim, out_dim, seed) holds the same
\* out_dim x in_dim matrix as the first one built for it, in every process
\* and whatever the cache file held, and reduce leaves the matrix as it was.
C25_MatrixSameAcrossRestarts ==
    /\ \A r \in Range(rp.cur) :
          LET t == <<r.in_dim, r.out_dim, r.seed>>
          IN /\ rp.first[t] # <<>>
             /\ r.R = rp.first[t][1]
             /\ Len(r.R) = r.out_dim
             /\ \A i \in 1..Len(r.R) : Len(r.R[i]) = r.in_dim
    /\ \A c \in Range(rp.last) : \A r \in Range(rp.cur) : r.R = c.R

\* a Reducer built again for a triple whose cache file was cut short by the
\* save of an earlier process, and one built from a file of another shape
C25_Witness ==
    /\ \E r \in Range(rp.cur) : r.again /\ r.found = "damaged"
    /\ \E t \in RpTriples : rp.first[t] # <<>> /\ rp.files[t].kind = "npy"
                             /\ Len(rp.files[t].M[1]) # t[1]

\* C26: get_embedder returns the FakeEmbedder exactly when force_local is
\* set, ALLOW_REMOTE is off or OPENAI_API_KEY is empty; every vector a
\* FakeEmbedder returns has the asked dimension and is the vector first
\* returned for that text and dimension, whatever calls came before; and a
\* FakeEmbedder call leaves the limiter, the cache, the provider call count
\* and the remote embedder's call state as they were.
C26_FakeChosenAndDeterministic ==
    [][ /\ \A r \in Range(ge'.ret) :
              r.kind = "fake" <=> (r.forceLocal \/ ~ge'.allowRemote \/ ~ge'.hasKey)
        /\ \A c \in Range(ge'.lastFake) :
              /\ Len(c.out) = Len(c.texts)
              /\ \A i \in 1..Len(c.texts) :
                    /\ Len(c.out[i]) = c.dim
                    /\ ge'.seen[<<c.texts[i], c.dim>>] = <<c.out[i]>>
        /\ ge'.fakeCalls # ge.fakeCalls => UNCHANGED <<lim, cacheRows, hist, ecall, epc>>
      ]_vars

\* a FakeEmbedder call made with force_local although remote embedding is
\* allowed and a key is set, after the remote embedder has accounted a call
C26_Witness ==
    /\ ge.allowRemote /\ ge.hasKey
    /\ \E r \in Range(ge.ret) : r.kind = "fake" /\ r.forceLocal
    /\ \E c \in Range(ge.lastFake) : c.texts # <<>>
    /\ hist.calls >= 1
    /\ lim.req >= 1

\* C27: in a store that holds only the record upserted with the non-zero
\* embedding v, search(v, k) for k >= 1 returns that record as its first hit
\* with a score of 1.
C27_OwnVectorScoresOne ==
    srch.done /\ SumSq(srch.q) > 0 /\ srch.k >= 1 /\ Len(vecs) = 1 =>
        /\ srch.hits # <<>>
        /\ srch.hits[1].m = meta[1]
        /\ srch.hits[1].score = [sgn |-> 1, num |-> 1, den |-> 1]

\* C28: every response /v1/stream/answer streams, with or without hits,
\* holds a preamble event, then later a final event, and the final event is
\* its last event and its only final event.
C28_PreambleThenFinalLast ==
    strm.status = "stream" =>
        LET n == Len(strm.events) IN
        /\ n >= 2
        /\ strm.events[n].type = "final"
        /\ \A i \in 1..(n - 1) : strm.events[i].type # "final"
        /\ \E i \in 1..(n - 1) : strm.events[i].type = "preamble"

\* C29: every chunk iter_chunked_items yields, in envelope and in NDJSON
\* mode, has a payload of at most chunk_bytes bytes and reports an
\* approx_bytes of at most chunk_bytes, unless it holds one item only and
\* that item's chunk is larger than chunk_bytes.
C29_ChunksWithinLimit ==
    \A c \in Range(chk.out) :
        \/ c.n = 1 /\ c.bytes > chk.chunkBytes
        \/ c.bytes <= chk.chunkBytes /\ c.approx <= chk.chunkBytes

\* C30: in every save a final file changes only by its rename; when
\* vectors.npy is renamed both temporary files hold their complete new
\* content; meta.jsonl is renamed after vectors.npy; and whatever step the
\* process dies at, each final file is whole: what it held before the save
\* or the complete new content, never the cut-off output of a write.
C30_SaveWritesThenRenames ==
    [][ /\ diskVec' # diskVec =>
              /\ pc = "replace_vec"
              /\ tmpVec = File(vecs) /\ tmpMeta = File(meta)
              /\ diskVec' = File(vecs)
              /\ diskMeta' = diskMeta /\ diskMeta = call.preDiskMeta
        /\ diskMeta' # diskMeta =>
              /\ pc = "replace_met"
              /\ tmpMeta = File(meta)
              /\ diskVec = File(vecs) /\ diskVec' = diskVec
              /\ diskMeta' = File(meta)
        /\ ~diskVec'.partial /\ ~diskMeta'.partial
        /\ pc' = "crashed" => /\ diskVec' = diskVec /\ diskMeta' = diskMeta
                              /\ diskVec \in {call.preDiskVec, File(vecs)}
                              /\ diskMeta \in {call.preDiskMeta, File(meta)}
      ]_vars

\* the process died between the two renames: vectors.npy holds the new
\* rows, meta.jsonl still the old ones, the complete meta.jsonl.tmp is left
C30_Witness ==
    /\ pc = "crashed"
    /\ diskVec # call.preDiskVec
    /\ diskMeta = call.preDiskMeta
    /\ tmpMeta.exists /\ ~tmpMeta.partial

(***************************************************************************)
(* Properties of concurrency, tie order, dimensions and reloads.           *)
(***************************************************************************)
\* C36: rows with equal scores come in array order: of two tied rows among
\* the candidates the one with the lower index is first, a row left out of
\* the candidate cut does not tie with a candidate of a higher index, and
\* tied hits are in index order.
C36_TiesInArrayOrder ==
    srch.done =>
        LET scores == DotOnUnitRows(srch.q, vecs)
            ord == srch.order
        IN /\ \A a, b \in 1..Len(ord) :
                 a < b /\ scores[ord[a]] = scores[ord[b]] => ord[a] < ord[b]
           /\ \A i \in (1..Len(vecs)) \ SeqRange(ord) :
                 \A a \in 1..Len(ord) : scores[ord[a]] = scores[i] => ord[a] < i
           /\ \A j \in 2..Len(srch.hits) :
                 srch.hits[j - 1].score = srch.hits[j].score =>
                     srch.hits[j - 1].m.rec < srch.hits[j].m.rec

\* C39: a call of get_embedder, with the same or another dim_hint, leaves the
\* requests and tokens accounted in the current rate window as they were.
C39_GetEmbedderKeepsUsage ==
    [][ /\ ge'.n # ge.n /\ ge'.fakeCalls = ge.fakeCalls
        /\ ge.remote # <<>>
        /\ now - lim.start < Window
        => lim'.req = lim.req /\ lim'.tok = lim.tok ]_vars

\* C32: every provider call of embed_texts, a retry as well as the first
\* attempt, has an accounting of its own before it (the call has accounted
\* once more than it has posted), and is posted only while the requests and
\* tokens accounted in the current window do not exceed limit * headroom.
C32_EachCallAccountedAndChecked ==
    [][ ecall'.calls = ecall.calls + 1 =>
            /\ ecall.accounts >= ecall.calls + 1
            /\ ~NeedSleep(Roll(lim, now)) ]_vars

\* C38: every embed_texts call ends: a call past its cache lookup returns or
\* raises; its rate-limit wait is asked for at most one window length, and
\* once it is over the window's counters hold nothing older than the wait;
\* the call posts to the provider at most MaxRetries times.
C38_EmbedTextsTerminates ==
    /\ [](ecall.slept <= Window /\ ecall.calls <= MaxRetries)
    /\ [][epc = "maybe_sleep" /\ ecall'.slept > 0 =>
             epc' = "attempt" /\ lim'.req = 0 /\ lim'.tok = 0]_vars
    /\ (epc # "idle") ~> (epc = "idle" /\ ecall.status \in {"ok", "raised"})

\* a call that waited for the window to end, then failed MaxRetries times
\* and raised
C38_Witness ==
    /\ epc = "idle"
    /\ ecall.status = "raised"
    /\ ecall.slept > 0
    /\ ecall.fails = MaxRetries

\* C34: every entry of the hot LRU is the vector the durable table holds now
\* for that hash and model.
C34_HotEqualsDurable ==
    \A i \in 1..Len(lru.m) :
        \E r \in cacheRows : LruKey(r.model, r.hash) = lru.m[i].k /\ r.vec = lru.m[i].v

C37_RowsHaveConfiguredDim ==
    pc = "idle" =>
        /\ \A i \in 1..Len(vecs) : Len(vecs[i].u) = Dim
        /\ EffectiveDim(vecs) = Dim

\* C40: when an upsert, a delete_by_ids or a load has returned without an
\* error, a store constructed now on the same directory holds the rows and
\* the metadata the instance holds, in the same order.
C40_FreshLoadEqualsMemory ==
    pc = "idle" /\ call.op \in {"upsert", "delete", "load"} /\ ~call.raised =>
        Loaded(diskVec, diskMeta) = [vecs |-> vecs, meta |-> meta]

\* C33: when no thread is inside account, the window's counters are the
\* requests and the tokens of the account calls that have returned since the
\* window was last started.
C33_NoAccountLost ==
    (\A t \in LimiterThreads : lt.thr[t].pc = "idle") =>
        lim.req = lt.req /\ lim.tok = lt.tok

\* C31: an instance constructed by a request while the writer saves writes
\* no file, and whenever the writer and the request have both finished the
\* two files hold the rows and the metadata the writer holds.
C31_ReaderLeavesFilesAlone ==
    /\ ~rd.wrote
    /\ pc = "idle" /\ ReaderAtRest =>
          /\ diskVec.rows = vecs
          /\ diskMeta.rows = meta

====
